---------------------------- MODULE Spec2Model ----------------------------
(***************************************************************************)
(* The harmonization engine of MotionWave: the note vocabulary, the        *)
(* transition matrix and the NeuralHarmonizer of improved-harmonizer.ts,   *)
(* and the SimpleHarmonizer of HandGestureTest.tsx.                        *)
(*                                                                         *)
(* Real numbers are fixed point: probabilities of the transition matrix    *)
(* are exact fractions num/den, velocities and random draws are            *)
(* thousandths (0.6 is 600, a draw of Math.random() is 0..999).            *)
(***************************************************************************)
EXTENDS Integers, Sequences, FiniteSets, TLC

VARIABLES
    voiceHistory,      \* NeuralHarmonizer.voiceHistory: voice -> sequence of vocabulary indices
    nCall,             \* the last call made on the NeuralHarmonizer, what it returned and did
    calls,             \* number of calls made so far (bounds the exploration)
    previousHarmony,   \* SimpleHarmonizer.previousHarmony: a HarmonyResult or NoHarmony
    sCall,             \* the last call made on the SimpleHarmonizer and what it returned
    tLookup,           \* the last read of the tables, when it was a vocabulary lookup
    tRow,              \* the last read of the tables, when it was a row of the matrix
    tSample,           \* the last direct call of sampleFromProbabilities and its result
    voiceSynth,        \* the VoiceScanner of the component and the oscillators sounding
    audioEnabled,      \* the audioEnabled state of the component
    previousNotes,     \* previousNotesRef.current: voice -> pitch last played
    aCall,             \* the last audio event and the calls it made on the VoiceScanner
    tName              \* the last conversion between MIDI notes and note names

vars == <<voiceHistory, nCall, calls, previousHarmony, sCall, tLookup, tRow, tSample,
          voiceSynth, audioEnabled, previousNotes, aCall, tName>>

neuralVars == <<voiceHistory, nCall, calls>>
simpleVars == <<previousHarmony, sCall>>
tableVars == <<tLookup, tRow, tSample>>
audioVars == <<voiceSynth, audioEnabled, previousNotes, aCall>>
nameVars == <<tName>>

\* What a lookup in a JavaScript object gives for a key it does not hold.
Undefined == 0 - 1

Abs(x) == IF x < 0 THEN 0 - x ELSE x
Max(a, b) == IF a > b THEN a ELSE b
Min(a, b) == IF a < b THEN a ELSE b

---------------------------------------------------------------------------
(* The note vocabulary (improved-harmonizer.ts, initializeVocabulary).     *)
(* A key is the text the code builds: a control token is <<name>>, a note  *)
(* key `(${midiNote},${tie})` is <<midiNote, "true" | "false">>.           *)

whiteKeyPattern == <<0, 2, 4, 5, 7, 9, 11>>
FirstOctave == 2
LastOctave == 6
TieOrder == <<"true", "false">>
ControlTokens == << <<"START">>, <<"END">>, <<"|">> >>

NoteKey(midiNote, tie) == <<midiNote, tie>>

\* The key inserted by the n-th pass of the innermost loop (n from 0): the loops
\* run octave, then white key, then tie.
PitchKeyMidiOctaveSlip(n) ==
    LET perOctave == Len(whiteKeyPattern) * Len(TieOrder)
        octave == FirstOctave + (n \div perOctave)
        i == (n \div Len(TieOrder)) % Len(whiteKeyPattern)
        t == n % Len(TieOrder)
    IN  NoteKey(octave * 12 + whiteKeyPattern[i + 1], TieOrder[t + 1])

PitchKey(n) ==
    LET perOctave == Len(whiteKeyPattern) * Len(TieOrder)
        octave == FirstOctave + (n \div perOctave)
        i == (n \div Len(TieOrder)) % Len(whiteKeyPattern)
        t == n % Len(TieOrder)
    IN  NoteKey((octave + 1) * 12 + whiteKeyPattern[i + 1], TieOrder[t + 1])

\* Every assignment NOTE_VOCABULARY[key] = index, VOCABULARY_TO_NOTE[index] = key
\* in the order the code makes them; the n-th assignment (from 1) uses index n - 1,
\* since index++ follows each.
initializeVocabulary ==
    ControlTokens \o
    [n \in 1 .. ((LastOctave - FirstOctave + 1) * Len(whiteKeyPattern) * Len(TieOrder))
        |-> PitchKey(n - 1)]

\* NOTE_VOCABULARY[key]: the index of the last assignment to that key, undefined
\* for a key never assigned.
NOTE_VOCABULARY(key) ==
    IF \E n \in DOMAIN initializeVocabulary : initializeVocabulary[n] = key
    THEN (CHOOSE n \in DOMAIN initializeVocabulary :
              /\ initializeVocabulary[n] = key
              /\ \A m \in (n + 1) .. Len(initializeVocabulary) :
                     initializeVocabulary[m] # key) - 1
    ELSE Undefined

\* VOCABULARY_TO_NOTE[index]: every index is assigned once, to the key of its assignment.
VOCABULARY_TO_NOTE(index) ==
    IF index + 1 \in DOMAIN initializeVocabulary
    THEN initializeVocabulary[index + 1] ELSE <<"undefined">>

START == NOTE_VOCABULARY(<<"START">>)

\* `(${leadNote.midiNote},${leadNote.tie || false})`
LeadKey(midiNote, tie) == NoteKey(midiNote, IF tie = "true" THEN "true" ELSE "false")

\* parseNoteKey / the parsing half of vocabKeyToNote: null unless the key starts
\* with "(" and matches /\((\d+),(true|false)\)/.
parseNoteKey(key) ==
    IF Len(key) = 2
    THEN [ok |-> TRUE, midiNote |-> key[1], tie |-> (key[2] = "true")]
    ELSE [ok |-> FALSE, midiNote |-> 0, tie |-> FALSE]

---------------------------------------------------------------------------
(* The transition matrix (HarmonyNetwork.initializeTransitionMatrix).      *)
(* Weights are thousandths; a matrix entry is the fraction num/den.        *)

ProbScale == 10 * 100
SameNoteProb == 300
StepProb == 250
SmallJumpProb == 200
LargerIntervalProb == 150
OctaveProb == 80
LargeJumpProb == 20
consonantIntervals == {3, 4, 5, 7, 8, 9, 12}

\* Object.keys(VOCABULARY_TO_NOTE).length
vocabularySize == Len(initializeVocabulary)
Indices == 0 .. (vocabularySize - 1)

\* The probability the inner loop assigns for one (from, to) pair of notes.
PairProbabilityTieBonusOnSteps(fromNote, toNote) ==
    LET interval == Abs(toNote.midiNote - fromNote.midiNote)
        base == IF interval = 0 THEN SameNoteProb
                ELSE IF interval <= 2 THEN StepProb
                ELSE IF interval <= 4 THEN SmallJumpProb
                ELSE IF interval <= 7 THEN LargerIntervalProb
                ELSE IF interval = 12 THEN OctaveProb
                ELSE LargeJumpProb
        bonus == IF (interval % 12) \in consonantIntervals
                 THEN (base * 15) \div 10 ELSE base
    IN  IF toNote.tie /\ interval <= 2 THEN (bonus * 12) \div 10 ELSE bonus

PairProbability(fromNote, toNote) ==
    LET interval == Abs(toNote.midiNote - fromNote.midiNote)
        base == IF interval = 0 THEN SameNoteProb
                ELSE IF interval <= 2 THEN StepProb
                ELSE IF interval <= 4 THEN SmallJumpProb
                ELSE IF interval <= 7 THEN LargerIntervalProb
                ELSE IF interval = 12 THEN OctaveProb
                ELSE LargeJumpProb
        bonus == IF (interval % 12) \in consonantIntervals
                 THEN (base * 15) \div 10 ELSE base
    IN  IF toNote.tie /\ interval = 0 THEN (bonus * 12) \div 10 ELSE bonus

\* Row fromIdx after the inner loop: entries the loop skips stay 0. A row is a
\* sequence: the entry of index i is at position i + 1.
RawRow(fromIdx) ==
    LET fromNote == parseNoteKey(VOCABULARY_TO_NOTE(fromIdx))
    IN  SubSeq([n \in 1 .. vocabularySize |->
                   LET toNote == parseNoteKey(VOCABULARY_TO_NOTE(n - 1))
                   IN  IF fromNote.ok /\ toNote.ok
                       THEN PairProbability(fromNote, toNote) ELSE 0],
               1, vocabularySize)

RECURSIVE SumRange(_, _, _)
SumRange(row, lo, hi) ==
    IF lo > hi THEN 0
    ELSE IF lo = hi THEN row[lo]
    ELSE SumRange(row, lo, (lo + hi) \div 2) + SumRange(row, ((lo + hi) \div 2) + 1, hi)

\* row.reduce((a, b) => a + b, 0)
RowSum(row) == SumRange(row, 1, Len(row))

NormalizeRowSkipsLast(row) ==
    LET sum == SumRange(row, 1, Len(row) - 1)
    IN  IF sum > 0
        THEN SubSeq([n \in DOMAIN row |-> [num |-> row[n], den |-> sum]], 1, Len(row))
        ELSE SubSeq([n \in DOMAIN row |-> [num |-> row[n], den |-> ProbScale]], 1, Len(row))

\* The normalization of one row: p / sum when sum > 0, the row as it is otherwise.
NormalizeRow(row) ==
    LET sum == RowSum(row)
    IN  IF sum > 0
        THEN SubSeq([n \in DOMAIN row |-> [num |-> row[n], den |-> sum]], 1, Len(row))
        ELSE SubSeq([n \in DOMAIN row |-> [num |-> row[n], den |-> ProbScale]], 1, Len(row))

\* this.transitionMatrix after the constructor; row and column i are at position i + 1.
transitionMatrix ==
    SubSeq([n \in 1 .. vocabularySize |-> NormalizeRow(RawRow(n - 1))], 1, vocabularySize)

---------------------------------------------------------------------------
(* HarmonyNetwork.generateProbabilities and sampleFromProbabilities.       *)
(* The softmax of generateProbabilities is strictly increasing in the      *)
(* accumulated value, and sampleFromProbabilities reads its argument only  *)
(* to order the indices, so the vector is kept before the softmax, in      *)
(* fixed point: a matrix entry in 1/MatrixFix, a weight in 1/WeightFix.    *)

MatrixFix == 100 * 1000
WeightFix == 10 * 1000

\* contextWeight * Math.exp(-distance * 0.5) for distance 0..5, times WeightFix.
ContextWeights == <<3000, 1820, 1104, 669, 406, 246>>

ContextWeight(distance) == ContextWeights[distance + 1]

Fixed(entry) == (entry.num * MatrixFix) \div entry.den

\* The matrix in fixed point, as generateProbabilities reads it.
fixedMatrix ==
    SubSeq([n \in 1 .. vocabularySize |->
               SubSeq([m \in 1 .. vocabularySize |-> Fixed(transitionMatrix[n][m])],
                      1, vocabularySize)],
           1, vocabularySize)

\* What the context entries from distance d on add to the value at position n.
RECURSIVE Influence(_, _, _)
Influence(contextNotes, d, n) ==
    IF d >= Len(contextNotes) THEN 0
    ELSE (IF contextNotes[d + 1] >= 0 /\ contextNotes[d + 1] < vocabularySize
          THEN ContextWeight(d) * fixedMatrix[contextNotes[d + 1] + 1][n]
          ELSE 0)
         + Influence(contextNotes, d + 1, n)

\* The accumulated vector; the value of index i is at position i + 1.
generateProbabilities(currentNote, contextNotes) ==
    SubSeq([n \in 1 .. vocabularySize |->
               (IF currentNote >= 0 /\ currentNote < vocabularySize
                THEN fixedMatrix[currentNote + 1][n] * WeightFix ELSE 0)
               + Influence(contextNotes, 0, n)],
           1, vocabularySize)

TopCandidates == 5

\* The next element of a stable ascending sort, the comparator turned round.
ArgMin(probabilities, taken) ==
    CHOOSE i \in (0 .. (Len(probabilities) - 1)) \ taken :
        \A j \in (0 .. (Len(probabilities) - 1)) \ taken :
            \/ probabilities[j + 1] > probabilities[i + 1]
            \/ probabilities[j + 1] = probabilities[i + 1] /\ j >= i

\* The next element of a stable descending sort: among the indices not taken,
\* the lowest one whose value no other exceeds.
ArgMax(probabilities, taken) ==
    CHOOSE i \in (0 .. (Len(probabilities) - 1)) \ taken :
        \A j \in (0 .. (Len(probabilities) - 1)) \ taken :
            \/ probabilities[j + 1] < probabilities[i + 1]
            \/ probabilities[j + 1] = probabilities[i + 1] /\ j >= i

\* indices after indices.sort((a, b) => probabilities[b] - probabilities[a]), cut
\* to the first TopCandidates entries, the only ones the code reads.
RECURSIVE SortPrefix(_, _)
SortPrefix(probabilities, sorted) ==
    IF Len(sorted) >= Min(TopCandidates, Len(probabilities)) THEN sorted
    ELSE SortPrefix(probabilities,
             Append(sorted, ArgMax(probabilities, {sorted[k] : k \in DOMAIN sorted})))

SortIndices(probabilities) == SortPrefix(probabilities, <<>>)

\* indices[k] of a JavaScript array: undefined past the end.
At(indices, k) == IF k + 1 \in DOMAIN indices THEN indices[k + 1] ELSE Undefined

\* a || b on array elements: b when a is undefined or 0.
OrElse(a, b) == IF a = Undefined \/ a = 0 THEN b ELSE a

BestBand == 600
SecondBand == 800
ThirdBand == 900

\* The selection of sampleFromProbabilities from the sorted indices; random and
\* random2 are its two Math.random() draws in thousandths, n = indices.length.
Select(indices, n, random, random2) ==
    IF random < BestBand THEN At(indices, 0)
    ELSE IF random < SecondBand THEN OrElse(At(indices, 1), At(indices, 0))
    ELSE IF random < ThirdBand THEN OrElse(At(indices, 2), At(indices, 0))
    ELSE At(indices, (random2 * Min(TopCandidates, n)) \div 1000)

sampleFromProbabilities(probabilities, random, random2) ==
    Select(SortIndices(probabilities), Len(probabilities), random, random2)

---------------------------------------------------------------------------
(* NeuralHarmonizer.                                                       *)
(* A Note is [midiNote, velocity, vowel, tie]; tie is "true", "false" or   *)
(* "absent" (the optional field left out). A HarmonyResult is a function   *)
(* from the voices that were assigned to Notes.                            *)

voices == <<"bass", "tenor", "mezzoSoprano", "soprano">>
Voices == {voices[k] : k \in DOMAIN voices}

voiceRanges ==
    [bass |-> [min |-> 40, max |-> 64],
     tenor |-> [min |-> 48, max |-> 69],
     mezzoSoprano |-> [min |-> 57, max |-> 77],
     soprano |-> [min |-> 60, max |-> 84]]

MaxHistory == 8
VoiceContextLength == 4
LeadContextLength == 2

EmptyHarmony == [v \in {} |-> 0]

\* array.slice(-k)
LastN(seq, k) == SubSeq(seq, Max(1, Len(seq) - k + 1), Len(seq))

\* history.push(index); if (history.length > 8) history.shift()
PushNeverShifts(history, index) == Append(history, index)

Push(history, index) ==
    LET pushed == Append(history, index)
    IN  IF Len(pushed) > MaxHistory THEN Tail(pushed) ELSE pushed

\* One octave toward the range, once, then the clamp.
ConstrainOnceNoClamp(midiNote, range) ==
    IF midiNote < range.min THEN midiNote + 12
    ELSE IF midiNote > range.max THEN midiNote - 12
    ELSE midiNote

\* The constraint as a search for the octave of the pitch that lies in the range.
ConstrainSearching(midiNote, range) ==
    IF midiNote < range.min
    THEN CHOOSE q \in range.min .. (range.min + 11) : (q - midiNote) % 12 = 0
    ELSE IF midiNote > range.max
    THEN CHOOSE q \in (range.max - 11) .. range.max : (midiNote - q) % 12 = 0
    ELSE midiNote

ConstrainOnce(midiNote, range) ==
    LET shifted == IF midiNote < range.min THEN midiNote + 12
                   ELSE IF midiNote > range.max THEN midiNote - 12
                   ELSE midiNote
    IN  Max(range.min, Min(range.max, shifted))

\* The notes are changed in place, so the result holds the voices the harmony
\* holds; every voice of voiceRanges is among them.
applyVoiceRangeConstraints(harmony) ==
    [v \in DOMAIN harmony |->
        IF v \in DOMAIN voiceRanges
        THEN [harmony[v] EXCEPT
                 !.midiNote = ConstrainOnce(harmony[v].midiNote, voiceRanges[v])]
        ELSE harmony[v]]

\* vocabKeyToNote: draw.volume and draw.vowel are its two Math.random() draws.
vocabKeyToNote(vocabKey, baseVolume, draw) ==
    LET parsed == parseNoteKey(vocabKey)
        volumeVariation == ((draw.volume - 500) * 2) \div 10
    IN  [ok |-> parsed.ok,
         note |-> [midiNote |-> parsed.midiNote,
                   velocity |-> Max(100, Min(1000, baseVolume + volumeVariation)),
                   vowel |-> IF draw.vowel < 800 THEN "A" ELSE "O",
                   tie |-> IF parsed.tie THEN "true" ELSE "false"]]

fallbackIntervals ==
    [bass |-> 0 - 12, tenor |-> 0 - 7, mezzoSoprano |-> 0 - 3, soprano |-> 0]

\* The fallback with the octave found by search, as constrainToRange of the
\* SimpleHarmonizer finds it, in place of the single step.
generateFallbackHarmonySearching(leadVoice, leadNote, volume) ==
    LET Fit(n, r) ==
            IF n < r.min THEN CHOOSE q \in r.min .. (r.min + 11) : (q - n) % 12 = 0
            ELSE IF n > r.max THEN CHOOSE q \in (r.max - 11) .. r.max : (n - q) % 12 = 0
            ELSE n
    IN  [v \in DOMAIN fallbackIntervals |->
            [midiNote |-> Fit(leadNote.midiNote + fallbackIntervals[v], voiceRanges[v]),
             velocity |-> IF v = leadVoice THEN volume ELSE (volume * 6) \div 10,
             vowel |-> leadNote.vowel,
             tie |-> "absent"]]

generateFallbackHarmony(leadVoice, leadNote, volume) ==
    applyVoiceRangeConstraints(
        [v \in DOMAIN fallbackIntervals |->
            [midiNote |-> leadNote.midiNote + fallbackIntervals[v],
             velocity |-> IF v = leadVoice THEN volume ELSE (volume * 6) \div 10,
             vowel |-> leadNote.vowel,
             tie |-> "absent"]])

\* What the forEach body reads for a non-lead voice: its context and last note.
VoiceInputLeadBeforePush(history, voice, leadVoice, leadVocabIndex) ==
    LET voiceContext == LastN(history[voice], VoiceContextLength)
        leadHistory == history[leadVoice]
        leadContext == LastN(SubSeq(leadHistory, 1, Len(leadHistory) - 1),
                             LeadContextLength)
    IN  [context |-> voiceContext \o leadContext,
         lastNote |-> IF Len(voiceContext) > 0
                      THEN voiceContext[Len(voiceContext)] ELSE leadVocabIndex]

VoiceInput(history, voice, leadVoice, leadVocabIndex) ==
    LET voiceContext == LastN(history[voice], VoiceContextLength)
        leadContext == LastN(history[leadVoice], LeadContextLength)
    IN  [context |-> voiceContext \o leadContext,
         lastNote |-> IF Len(voiceContext) > 0
                      THEN voiceContext[Len(voiceContext)] ELSE leadVocabIndex]

\* The indices sampleFromProbabilities sorts for a non-lead voice.
VoiceCandidates(history, voice, leadVoice, leadVocabIndex) ==
    LET in == VoiceInput(history, voice, leadVoice, leadVocabIndex)
    IN  SortIndices(generateProbabilities(in.lastNote, in.context))

\* The same for the k-th pass of voices.forEach; the lead's pass sorts nothing. A
\* pass writes the history of its own voice only, so every pass reads the
\* histories as they are after the lead's push.
Candidates(history, voice, leadVoice, leadVocabIndex) ==
    IF voice = leadVoice THEN <<>>
    ELSE VoiceCandidates(history, voice, leadVoice, leadVocabIndex)

\* What a pass of voices.forEach for a non-lead voice read and chose: the context
\* and current state it gave generateProbabilities, the index
\* sampleFromProbabilities returned, and whether vocabKeyToNote made a note of it.
PassRecord(history, voice, leadVoice, leadNote, selectedIndex, decoded) ==
    LET in == VoiceInput(history, voice, leadVoice,
                         NOTE_VOCABULARY(LeadKey(leadNote.midiNote, leadNote.tie)))
    IN  [context |-> in.context, lastNote |-> in.lastNote,
         selectedIndex |-> selectedIndex, decoded |-> decoded]

\* One pass of voices.forEach: st is [history, harmony, passes], candidates the
\* sorted indices of this voice.
VoicePassSkipsLead(st, voice, leadVoice, leadNote, volume, candidates, draw) ==
    IF voice = leadVoice
    THEN st
    ELSE LET selectedIndex == Select(candidates, vocabularySize, draw.random, draw.random2)
             made == vocabKeyToNote(VOCABULARY_TO_NOTE(selectedIndex),
                                    (volume * 6) \div 10, draw)
             pass == PassRecord(st.history, voice, leadVoice, leadNote,
                                selectedIndex, made.ok)
         IN  IF made.ok
             THEN [history |-> [st.history EXCEPT ![voice] = Push(@, selectedIndex)],
                   harmony |-> (voice :> made.note) @@ st.harmony,
                   passes |-> (voice :> pass) @@ st.passes]
             ELSE [st EXCEPT !.passes = (voice :> pass) @@ st.passes]

VoicePassKeepsLeadVelocity(st, voice, leadVoice, leadNote, volume, candidates, draw) ==
    IF voice = leadVoice
    THEN [st EXCEPT !.harmony = (voice :> leadNote) @@ st.harmony]
    ELSE LET selectedIndex == Select(candidates, vocabularySize, draw.random, draw.random2)
             made == vocabKeyToNote(VOCABULARY_TO_NOTE(selectedIndex),
                                    (volume * 6) \div 10, draw)
             pass == PassRecord(st.history, voice, leadVoice, leadNote,
                                selectedIndex, made.ok)
         IN  IF made.ok
             THEN [history |-> [st.history EXCEPT ![voice] = Push(@, selectedIndex)],
                   harmony |-> (voice :> made.note) @@ st.harmony,
                   passes |-> (voice :> pass) @@ st.passes]
             ELSE [st EXCEPT !.harmony =
                      (voice :> [leadNote EXCEPT !.velocity = (volume * 4) \div 10])
                      @@ st.harmony,
                      !.passes = (voice :> pass) @@ st.passes]

\* The pass without the push onto the voice's own history.
VoicePassWithoutPush(st, voice, leadVoice, leadNote, volume, candidates, draw) ==
    IF voice = leadVoice
    THEN [st EXCEPT !.harmony =
             (voice :> [leadNote EXCEPT !.velocity = volume]) @@ st.harmony]
    ELSE LET selectedIndex == Select(candidates, vocabularySize, draw.random, draw.random2)
             made == vocabKeyToNote(VOCABULARY_TO_NOTE(selectedIndex),
                                    (volume * 6) \div 10, draw)
             pass == PassRecord(st.history, voice, leadVoice, leadNote,
                                selectedIndex, made.ok)
         IN  [st EXCEPT !.harmony =
                 (voice :> (IF made.ok THEN made.note
                            ELSE [leadNote EXCEPT !.velocity = (volume * 4) \div 10]))
                 @@ st.harmony,
                 !.passes = (voice :> pass) @@ st.passes]

VoicePass(st, voice, leadVoice, leadNote, volume, candidates, draw) ==
    IF voice = leadVoice
    THEN [st EXCEPT !.harmony =
             (voice :> [leadNote EXCEPT !.velocity = volume]) @@ st.harmony]
    ELSE LET selectedIndex == Select(candidates, vocabularySize, draw.random, draw.random2)
             made == vocabKeyToNote(VOCABULARY_TO_NOTE(selectedIndex),
                                    (volume * 6) \div 10, draw)
             pass == PassRecord(st.history, voice, leadVoice, leadNote,
                                selectedIndex, made.ok)
         IN  IF made.ok
             THEN [history |-> [st.history EXCEPT ![voice] = Push(@, selectedIndex)],
                   harmony |-> (voice :> made.note) @@ st.harmony,
                   passes |-> (voice :> pass) @@ st.passes]
             ELSE [st EXCEPT !.harmony =
                      (voice :> [leadNote EXCEPT !.velocity = (volume * 4) \div 10])
                      @@ st.harmony,
                      !.passes = (voice :> pass) @@ st.passes]

\* The inputs of the model: lead voices (one of them not a voice of the engine),
\* lead notes in and out of the vocabulary with the volume of the call, and the
\* Math.random() draws one non-lead voice consumes (sampleFromProbabilities, then
\* vocabKeyToNote).
LeadVoices == Voices \cup {"alto"}

LeadInputs ==
    {[leadNote |-> [midiNote |-> 36, velocity |-> 500, vowel |-> "O", tie |-> "true"],
      volume |-> 800],
     [leadNote |-> [midiNote |-> 72, velocity |-> 500, vowel |-> "A", tie |-> "false"],
      volume |-> 1000],
     [leadNote |-> [midiNote |-> 95, velocity |-> 500, vowel |-> "A", tie |-> "absent"],
      volume |-> 0],
     [leadNote |-> [midiNote |-> 20, velocity |-> 500, vowel |-> "O", tie |-> "true"],
      volume |-> 800],
     [leadNote |-> [midiNote |-> 96, velocity |-> 500, vowel |-> "A", tie |-> "absent"],
      volume |-> 500]}

DrawSeq ==
    <<[random |-> 300, random2 |-> 0, volume |-> 500, vowel |-> 500],
      [random |-> 700, random2 |-> 0, volume |-> 0, vowel |-> 900],
      [random |-> 850, random2 |-> 0, volume |-> 995, vowel |-> 100],
      [random |-> 950, random2 |-> 700, volume |-> 500, vowel |-> 500],
      [random |-> 950, random2 |-> 950, volume |-> 250, vowel |-> 799]>>

\* The draws of one call, voice by voice: profile k gives the j-th voice draw k + j.
DrawProfile(k) ==
    [v \in Voices |->
        DrawSeq[((k + (CHOOSE j \in DOMAIN voices : voices[j] = v)) % Len(DrawSeq)) + 1]]

DrawProfiles == {DrawProfile(1), DrawProfile(3)}

\* A long run: two leads in the vocabulary, one outside it, one profile of draws.
LongLeads ==
    {[leadVoice |-> "soprano",
      leadNote |-> [midiNote |-> 72, velocity |-> 500, vowel |-> "A", tie |-> "false"],
      volume |-> 800],
     [leadVoice |-> "bass",
      leadNote |-> [midiNote |-> 48, velocity |-> 500, vowel |-> "O", tie |-> "true"],
      volume |-> 800],
     [leadVoice |-> "tenor",
      leadNote |-> [midiNote |-> 61, velocity |-> 500, vowel |-> "A", tie |-> "false"],
      volume |-> 800]}

LongProfiles == {DrawProfile(0)}

MaxCalls == 2
MaxLongCalls == 9

NoCall ==
    [op |-> "none", leadVoice |-> "none",
     leadNote |-> [midiNote |-> 0, velocity |-> 0, vowel |-> "A", tie |-> "absent"],
     volume |-> 0, path |-> "none", outcome |-> "none", result |-> EmptyHarmony,
     passes |-> EmptyHarmony]

FreshHistory == [v \in Voices |-> <<START>>]

\* The generator path of generateHarmony from the lead's push on, for a lead voice
\* that has a history: [history, harmony, passes] after the loop.
GeneratorPath(history, leadVoice, leadNote, leadVocabIndex, volume, candidates, draws) ==
    LET RECURSIVE Loop(_, _)
        Loop(st, k) ==
            IF k > Len(voices) THEN st
            ELSE Loop(VoicePass(st, voices[k], leadVoice, leadNote, volume,
                                candidates[k], draws[voices[k]]),
                      k + 1)
    IN  Loop([history |-> history, harmony |-> EmptyHarmony, passes |-> EmptyHarmony], 1)

\* generateHarmony with the lead's push made before the vocabulary test.
generateHarmonyPushesFirst(history, leadVoice, leadNote, volume, profiles) ==
    LET leadVocabIndex == NOTE_VOCABULARY(LeadKey(leadNote.midiNote, leadNote.tie))
        pushed == [history EXCEPT ![leadVoice] = Push(@, leadVocabIndex)]
    IN  IF leadVoice \notin DOMAIN history
        THEN {[history |-> history, path |-> "generator", outcome |-> "threw",
               result |-> EmptyHarmony, passes |-> EmptyHarmony]}
        ELSE IF leadVocabIndex = Undefined
        THEN {[history |-> pushed, path |-> "fallback", outcome |-> "returned",
               result |-> generateFallbackHarmony(leadVoice, leadNote, volume),
               passes |-> EmptyHarmony]}
        ELSE UNION {
                 {[history |-> GeneratorPath(pushed, leadVoice, leadNote, leadVocabIndex,
                                             volume, candidates, draws).history,
                   path |-> "generator", outcome |-> "returned",
                   result |-> applyVoiceRangeConstraints(
                       GeneratorPath(pushed, leadVoice, leadNote, leadVocabIndex,
                                     volume, candidates, draws).harmony),
                   passes |-> GeneratorPath(pushed, leadVoice, leadNote, leadVocabIndex,
                                            volume, candidates, draws).passes] :
                  draws \in profiles} :
                 candidates \in
                     {<<Candidates(pushed, voices[1], leadVoice, leadVocabIndex),
                        Candidates(pushed, voices[2], leadVoice, leadVocabIndex),
                        Candidates(pushed, voices[3], leadVoice, leadVocabIndex),
                        Candidates(pushed, voices[4], leadVoice, leadVocabIndex)>>}}

\* What one generateHarmony(leadVoice, leadNote, volume) can do from the given
\* histories, one outcome per profile of draws: the histories it leaves, the path
\* it took, the result it returns unless it threw, and what its passes did.
generateHarmony(history, leadVoice, leadNote, volume, profiles) ==
    LET leadVocabIndex == NOTE_VOCABULARY(LeadKey(leadNote.midiNote, leadNote.tie))
        pushed == [history EXCEPT ![leadVoice] = Push(@, leadVocabIndex)]
    IN  IF leadVocabIndex = Undefined
        THEN {[history |-> history, path |-> "fallback", outcome |-> "returned",
               result |-> generateFallbackHarmony(leadVoice, leadNote, volume),
               passes |-> EmptyHarmony]}
        ELSE IF leadVoice \notin DOMAIN history
        \* this.voiceHistory[leadVoice] is undefined: .push raises a TypeError
        THEN {[history |-> history, path |-> "generator", outcome |-> "threw",
               result |-> EmptyHarmony, passes |-> EmptyHarmony]}
        ELSE UNION {
                 {[history |-> GeneratorPath(pushed, leadVoice, leadNote, leadVocabIndex,
                                             volume, candidates, draws).history,
                   path |-> "generator", outcome |-> "returned",
                   result |-> applyVoiceRangeConstraints(
                       GeneratorPath(pushed, leadVoice, leadNote, leadVocabIndex,
                                     volume, candidates, draws).harmony),
                   passes |-> GeneratorPath(pushed, leadVoice, leadNote, leadVocabIndex,
                                            volume, candidates, draws).passes] :
                  draws \in profiles} :
                 candidates \in
                     {<<Candidates(pushed, voices[1], leadVoice, leadVocabIndex),
                        Candidates(pushed, voices[2], leadVoice, leadVocabIndex),
                        Candidates(pushed, voices[3], leadVoice, leadVocabIndex),
                        Candidates(pushed, voices[4], leadVoice, leadVocabIndex)>>}}

\* The call as a step of the engine.
GenerateHarmony(leadVoice, leadNote, volume, profiles) ==
    /\ calls' = calls + 1
    /\ \E done \in generateHarmony(voiceHistory, leadVoice, leadNote, volume, profiles) :
           /\ voiceHistory' = done.history
           /\ nCall' = [op |-> "generateHarmony", leadVoice |-> leadVoice,
                        leadNote |-> leadNote, volume |-> volume,
                        path |-> done.path, outcome |-> done.outcome,
                        result |-> done.result, passes |-> done.passes]
    /\ UNCHANGED <<simpleVars, tableVars, audioVars, nameVars>>

\* reset()
ResetEmpties ==
    /\ calls' = calls + 1
    /\ voiceHistory' = [v \in DOMAIN voiceHistory |-> <<>>]
    /\ nCall' = [NoCall EXCEPT !.op = "reset", !.outcome = "returned"]
    /\ UNCHANGED <<simpleVars, tableVars, audioVars, nameVars>>

Reset ==
    /\ calls' = calls + 1
    /\ voiceHistory' = [v \in DOMAIN voiceHistory |-> <<START>>]
    /\ nCall' = [NoCall EXCEPT !.op = "reset", !.outcome = "returned"]
    /\ UNCHANGED <<simpleVars, tableVars, audioVars, nameVars>>

---------------------------------------------------------------------------
(* SimpleHarmonizer (HandGestureTest.tsx). Its Notes carry no tie.         *)

\* The % of JavaScript: the sign of the result is the sign of the dividend.
Remainder(a, b) == IF a >= 0 THEN a % b ELSE 0 - ((0 - a) % b)

majorNotes == {0, 2, 4, 5, 7, 9}

getChordTypeAlwaysMajor(midiNote) == "major"

getChordType(midiNote) ==
    IF Remainder(midiNote, 12) \in majorNotes THEN "major" ELSE "minor"

\* while (note < min) note += 12, for a range at least an octave wide.
RECURSIVE RaiseInto(_, _)
RaiseInto(note, min) == IF note < min THEN RaiseInto(note + 12, min) ELSE note

\* while (note > max) note -= 12
RECURSIVE LowerInto(_, _)
LowerInto(note, max) == IF note > max THEN LowerInto(note - 12, max) ELSE note

\* The fit with one octave step in place of each loop.
constrainToRangeSingleStep(note, min, max) ==
    Max(min, Min(max, IF note < min THEN note + 12
                      ELSE IF note > max THEN note - 12 ELSE note))

constrainToRange(note, min, max) ==
    Max(min, Min(max, LowerInto(RaiseInto(note, min), max)))

generateChordHarmony(leadMidi, chordType) ==
    LET third == IF chordType = "major" THEN 4 ELSE 3
        fifth == 7
        Made(midiNote) == [midiNote |-> midiNote, velocity |-> 600,
                           vowel |-> "A", tie |-> "absent"]
    IN  [bass |-> Made(constrainToRange(leadMidi - 12, 40, 64)),
         tenor |-> Made(constrainToRange(leadMidi - fifth, 48, 69)),
         mezzoSoprano |-> Made(constrainToRange(leadMidi - third, 57, 77)),
         soprano |-> Made(constrainToRange(leadMidi, 60, 84))]

smoothingRanges ==
    [bass |-> <<40, 64>>, tenor |-> <<48, 69>>,
     mezzoSoprano |-> <<57, 77>>, soprano |-> <<60, 84>>]

SmoothingThreshold == 6

\* The alternative taken whenever it is in the range, closer or not.
TryAlternativeIgnoresDistance(best, alt, voice, prevNote) ==
    LET range == IF voice \in DOMAIN smoothingRanges
                 THEN smoothingRanges[voice] ELSE <<40, 84>>
    IN  IF alt >= range[1] /\ alt <= range[2]
        THEN [note |-> alt, interval |-> Abs(alt - prevNote)]
        ELSE best

\* The forEach over the two alternatives: best is [note, interval] so far.
TryAlternative(best, alt, voice, prevNote) ==
    LET range == IF voice \in DOMAIN smoothingRanges
                 THEN smoothingRanges[voice] ELSE <<40, 84>>
    IN  IF alt >= range[1] /\ alt <= range[2] /\ Abs(alt - prevNote) < best.interval
        THEN [note |-> alt, interval |-> Abs(alt - prevNote)]
        ELSE best

SmoothNoteAnyOctave(newNote, prevNote, voice) ==
    IF Abs(newNote - prevNote) > SmoothingThreshold
    THEN IF Abs(newNote + 12 - prevNote) < Abs(newNote - prevNote) THEN newNote + 12
         ELSE IF Abs(newNote - 12 - prevNote) < Abs(newNote - prevNote) THEN newNote - 12
         ELSE newNote
    ELSE newNote

\* The body of smoothVoiceLeading with the octave above as the only alternative.
SmoothNoteOnlyUpward(newNote, prevNote, voice) ==
    LET interval == Abs(newNote - prevNote)
    IN  IF interval > SmoothingThreshold
        THEN TryAlternative([note |-> newNote, interval |-> interval],
                            newNote + 12, voice, prevNote).note
        ELSE newNote

\* The body of smoothVoiceLeading for one voice: the pitch it leaves in newHarmony.
SmoothNote(newNote, prevNote, voice) ==
    LET interval == Abs(newNote - prevNote)
    IN  IF interval > SmoothingThreshold
        THEN TryAlternative(
                 TryAlternative([note |-> newNote, interval |-> interval],
                                newNote + 12, voice, prevNote),
                 newNote - 12, voice, prevNote).note
        ELSE newNote

smoothVoiceLeading(newHarmony, prevHarmony) ==
    [v \in DOMAIN newHarmony |->
        [newHarmony[v] EXCEPT
            !.midiNote = SmoothNote(newHarmony[v].midiNote, prevHarmony[v].midiNote, v)]]

NoHarmony == EmptyHarmony

HasPrevious(harmony) == DOMAIN harmony # {}

\* The harmony before volumes and vowels are set.
SimplePitches(leadMidi, previous) ==
    LET harmony == generateChordHarmony(leadMidi, getChordType(leadMidi))
    IN  IF HasPrevious(previous) THEN smoothVoiceLeading(harmony, previous) ELSE harmony

\* Set volumes and vowels; vowelDraws[v] is the Math.random() draw of voice v.
Dress(harmony, leadVoice, leadNote, volume, vowelDraws) ==
    [v \in DOMAIN harmony |->
        IF v = leadVoice
        THEN [harmony[v] EXCEPT !.velocity = volume, !.vowel = leadNote.vowel]
        ELSE [harmony[v] EXCEPT
                 !.velocity = (volume * 6) \div 10,
                 !.vowel = IF vowelDraws[v] < 800 THEN leadNote.vowel
                           ELSE IF leadNote.vowel = "A" THEN "O" ELSE "A"]]

\* SimpleHarmonizer.generateHarmony(leadVoice, leadNote, volume)
SimpleGenerateHarmonyKeepsUnsmoothed(leadVoice, leadNote, volume, vowelDraws) ==
    \E pitched \in {SimplePitches(leadNote.midiNote, previousHarmony)} :
        \E harmony \in {Dress(pitched, leadVoice, leadNote, volume, vowelDraws)} :
            /\ previousHarmony' =
                   Dress(generateChordHarmony(leadNote.midiNote,
                                              getChordType(leadNote.midiNote)),
                         leadVoice, leadNote, volume, vowelDraws)
            /\ sCall' = [op |-> "generateHarmony", leadVoice |-> leadVoice,
                         leadNote |-> leadNote, volume |-> volume,
                         path |-> IF HasPrevious(previousHarmony)
                                  THEN "smoothed" ELSE "first",
                         outcome |-> "returned", result |-> harmony,
                         passes |-> EmptyHarmony]
            /\ UNCHANGED <<neuralVars, tableVars, nameVars>>

SimpleGenerateHarmony(leadVoice, leadNote, volume, vowelDraws) ==
    \E pitched \in {SimplePitches(leadNote.midiNote, previousHarmony)} :
        \E harmony \in {Dress(pitched, leadVoice, leadNote, volume, vowelDraws)} :
            /\ previousHarmony' = harmony
            /\ sCall' = [op |-> "generateHarmony", leadVoice |-> leadVoice,
                         leadNote |-> leadNote, volume |-> volume,
                         path |-> IF HasPrevious(previousHarmony)
                                  THEN "smoothed" ELSE "first",
                         outcome |-> "returned", result |-> harmony,
                         passes |-> EmptyHarmony]
            /\ UNCHANGED <<neuralVars, tableVars, nameVars>>

\* SimpleHarmonizer.reset()
SimpleResetKeeps ==
    /\ previousHarmony' = previousHarmony
    /\ sCall' = [NoCall EXCEPT !.op = "reset", !.outcome = "returned"]
    /\ UNCHANGED <<neuralVars, tableVars, audioVars, nameVars>>

SimpleReset ==
    /\ previousHarmony' = NoHarmony
    /\ sCall' = [NoCall EXCEPT !.op = "reset", !.outcome = "returned"]
    /\ UNCHANGED <<neuralVars, tableVars, audioVars, nameVars>>

\* The inputs: every lead pitch of the five octaves of the vocabulary, and a few
\* combinations of lead voice, volume, vowel and vowel draws.
MinSimplePitch == 36
MaxSimplePitch == 96
SimpleLeadPitches == MinSimplePitch .. MaxSimplePitch

SimpleStyles ==
    {[leadVoice |-> "soprano", volume |-> 800, vowel |-> "A",
      vowelDraws |-> [v \in Voices |-> 500]],
     [leadVoice |-> "bass", volume |-> 500, vowel |-> "O",
      vowelDraws |-> [v \in Voices |-> IF v = "tenor" THEN 900 ELSE 799]],
     [leadVoice |-> "tenor", volume |-> 1000, vowel |-> "A",
      vowelDraws |-> [v \in Voices |-> 800]],
     [leadVoice |-> "mezzoSoprano", volume |-> 0, vowel |-> "O",
      vowelDraws |-> [v \in Voices |-> 0]],
     [leadVoice |-> "alto", volume |-> 800, vowel |-> "A",
      vowelDraws |-> [v \in Voices |-> IF v = "bass" THEN 999 ELSE 100]]}

---------------------------------------------------------------------------
(* Clients of the two tables: a lookup of a (pitch, tie) pair the way      *)
(* generateHarmony makes it, and a read of one row of the matrix.          *)

MaxLookupPitch == 127
LookupPitches == 0 .. MaxLookupPitch
Ties == {"true", "false", "absent"}

NoLookup == [midiNote |-> 0, tie |-> "absent", index |-> Undefined, key |-> <<"undefined">>]

NoRow == [from |-> Undefined, row |-> <<>>]

NoSample == [op |-> "none", probabilities |-> <<>>, random |-> 0, random2 |-> 0,
             index |-> Undefined]

Lookup(midiNote, tie) ==
    /\ tLookup' = [midiNote |-> midiNote, tie |-> tie,
                   index |-> NOTE_VOCABULARY(LeadKey(midiNote, tie)),
                   key |-> VOCABULARY_TO_NOTE(NOTE_VOCABULARY(LeadKey(midiNote, tie)))]
    /\ tRow' = NoRow
    /\ tSample' = NoSample
    /\ UNCHANGED <<neuralVars, simpleVars, audioVars, nameVars>>

ReadRow(fromIdx) ==
    /\ tRow' = [from |-> fromIdx, row |-> transitionMatrix[fromIdx + 1]]
    /\ tLookup' = NoLookup
    /\ tSample' = NoSample
    /\ UNCHANGED <<neuralVars, simpleVars, audioVars, nameVars>>

\* A call network.sampleFromProbabilities(probabilities) with the two draws it may
\* consume. The vectors are short, with small weights and ties among them; a
\* draw is [random, random2], random2 being read only in the last band.
MaxVectorLen == 6
MaxWeight == 2

SampleVectors == UNION {[1 .. n -> 0 .. MaxWeight] : n \in 0 .. MaxVectorLen}

SampleDraws ==
    {<<random, 0>> : random \in {0, 599, 600, 799, 800, 899}}
        \cup {<<random, random2>> : random \in {900, 999}, random2 \in {0, 400, 999}}

Sample(probabilities, random, random2) ==
    /\ tSample' = [op |-> "sampleFromProbabilities", probabilities |-> probabilities,
                   random |-> random, random2 |-> random2,
                   index |-> sampleFromProbabilities(probabilities, random, random2)]
    /\ tLookup' = NoLookup
    /\ tRow' = NoRow
    /\ UNCHANGED <<neuralVars, simpleVars, audioVars, nameVars>>

---------------------------------------------------------------------------
(* VoiceScanner (HandGestureTest.tsx), the synthesizer of the component.   *)
(* An oscillator is [id, voice, midiNote]; started holds the oscillators   *)
(* on which start() was called and stop() was not. Gains and filter        *)
(* frequencies are left out: they start and stop nothing.                  *)

\* oscillators[voice] = null
Null == 0

NoOscillators == [v \in {} |-> Null]

\* new VoiceScanner()
NewVoiceScanner ==
    [audioContext |-> "null", oscillators |-> NoOscillators, filterNodes |-> {},
     initialized |-> FALSE, started |-> {}]

\* initialize(): contextCreated tells whether new AudioContext() succeeded; when
\* it throws, the catch leaves every field as it was.
initialize(syn, contextCreated) ==
    IF syn.initialized \/ ~ contextCreated THEN syn
    ELSE [syn EXCEPT !.audioContext = "running",
                     !.filterNodes = @ \cup Voices,
                     !.oscillators = [v \in Voices |-> Null] @@ @,
                     !.initialized = TRUE]

\* if (!this.initialized || !this.audioContext) return
Ready(syn) == syn.initialized /\ syn.audioContext # "null"

\* stopNote with the reference dropped and the oscillator left running.
stopNoteDropsReference(syn, voice) ==
    IF ~ Ready(syn) THEN syn
    ELSE IF voice \in DOMAIN syn.oscillators /\ syn.oscillators[voice] # Null
    THEN [syn EXCEPT !.oscillators = [@ EXCEPT ![voice] = Null]]
    ELSE syn

\* stopNote(voice)
stopNote(syn, voice) ==
    IF ~ Ready(syn) THEN syn
    ELSE IF voice \in DOMAIN syn.oscillators /\ syn.oscillators[voice] # Null
    THEN [syn EXCEPT !.started = {o \in @ : o.id # syn.oscillators[voice]},
                     !.oscillators = [@ EXCEPT ![voice] = Null]]
    ELSE syn

\* The identity of a new oscillator: the first not borne by an oscillator
\* started when the call began (the one the call stops among them).
FreshId(syn) ==
    CHOOSE id \in 1 .. (Cardinality(syn.started) + 1) :
        /\ \A o \in syn.started : o.id # id
        /\ \A lower \in 1 .. (id - 1) : \E o \in syn.started : o.id = lower

\* filterNodes[voice] (and gainNodes[voice]) is undefined for a voice the
\* VoiceScanner has no nodes for: connecting to it, or reading its frequency,
\* raises a TypeError.
Throws(syn, voice) == Ready(syn) /\ voice \notin syn.filterNodes

\* playNote(voice, midiNote, velocity, vowel): what it leaves, also when
\* oscillator.connect raises, which is before oscillator.start().
playNote(syn, voice, midiNote) ==
    IF ~ Ready(syn) THEN syn
    ELSE LET stopped == stopNote(syn, voice)
             oscillator == [id |-> FreshId(syn), voice |-> voice,
                            midiNote |-> midiNote]
         IN  IF voice \notin stopped.filterNodes THEN stopped
             ELSE [stopped EXCEPT !.started = @ \cup {oscillator},
                                  !.oscillators = (voice :> oscillator.id) @@ @]

\* updateNote(voice, midiNote, velocity, vowel)
updateNote(syn, voice, midiNote) ==
    IF ~ Ready(syn) \/ voice \notin syn.filterNodes THEN syn
    ELSE IF voice \in DOMAIN syn.oscillators /\ syn.oscillators[voice] # Null
    THEN [syn EXCEPT !.started =
             {IF o.id = syn.oscillators[voice] THEN [o EXCEPT !.midiNote = midiNote]
              ELSE o : o \in @}]
    ELSE syn

\* Object.keys(this.oscillators).forEach(voice => this.stopNote(voice))
RECURSIVE StopEach(_, _)
StopEach(syn, keys) ==
    IF keys = {} THEN syn
    ELSE LET voice == CHOOSE k \in keys : TRUE
         IN  StopEach(stopNote(syn, voice), keys \ {voice})

\* dispose()
dispose(syn) ==
    [StopEach(syn, DOMAIN syn.oscillators) EXCEPT
        !.audioContext = "null", !.oscillators = NoOscillators,
        !.filterNodes = {}, !.initialized = FALSE]

\* The record of an audio event: the calls of playNote and updateNote it made, by
\* voice, and whether it raised.
NoAudioCall ==
    [op |-> "none", voice |-> "none", midiNote |-> 0, playNote |-> {},
     updateNote |-> {}, threw |-> FALSE]

\* Direct calls on a VoiceScanner.
Initialize(contextCreated) ==
    /\ voiceSynth' = initialize(voiceSynth, contextCreated)
    /\ aCall' = [NoAudioCall EXCEPT !.op = "initialize"]
    /\ UNCHANGED <<audioEnabled, previousNotes>>
    /\ UNCHANGED <<neuralVars, simpleVars, tableVars, nameVars>>

PlayNote(voice, midiNote) ==
    /\ voiceSynth' = playNote(voiceSynth, voice, midiNote)
    /\ aCall' = [NoAudioCall EXCEPT !.op = "playNote", !.voice = voice,
                                    !.midiNote = midiNote,
                                    !.threw = Throws(voiceSynth, voice)]
    /\ UNCHANGED <<audioEnabled, previousNotes>>
    /\ UNCHANGED <<neuralVars, simpleVars, tableVars, nameVars>>

UpdateNote(voice, midiNote) ==
    /\ voiceSynth' = updateNote(voiceSynth, voice, midiNote)
    /\ aCall' = [NoAudioCall EXCEPT !.op = "updateNote", !.voice = voice,
                                    !.midiNote = midiNote,
                                    !.threw = Throws(voiceSynth, voice)]
    /\ UNCHANGED <<audioEnabled, previousNotes>>
    /\ UNCHANGED <<neuralVars, simpleVars, tableVars, nameVars>>

StopNote(voice) ==
    /\ voiceSynth' = stopNote(voiceSynth, voice)
    /\ aCall' = [NoAudioCall EXCEPT !.op = "stopNote", !.voice = voice]
    /\ UNCHANGED <<audioEnabled, previousNotes>>
    /\ UNCHANGED <<neuralVars, simpleVars, tableVars, nameVars>>

Dispose ==
    /\ voiceSynth' = dispose(voiceSynth)
    /\ aCall' = [NoAudioCall EXCEPT !.op = "dispose"]
    /\ UNCHANGED <<audioEnabled, previousNotes>>
    /\ UNCHANGED <<neuralVars, simpleVars, tableVars, nameVars>>

---------------------------------------------------------------------------
(* The audio callbacks of the component VirtualOrchestra                   *)
(* (HandGestureTest.tsx). A pitch of the hand is in thousandths.           *)

singerNames == <<"bass", "tenor", "mezzoSoprano", "soprano">>

singerRanges ==
    <<[startOctave |-> 2, startNote |-> 4, endOctave |-> 4, endNote |-> 4],
      [startOctave |-> 3, startNote |-> 0, endOctave |-> 4, endNote |-> 5],
      [startOctave |-> 3, startNote |-> 5, endOctave |-> 5, endNote |-> 3],
      [startOctave |-> 4, startNote |-> 0, endOctave |-> 6, endNote |-> 0]>>

\* The white keys the two loops of pitchToMidi push, which they push in
\* ascending order.
whiteKeys(range) ==
    {(octave + 1) * 12 + whiteKeyPattern[noteIdx + 1] :
        <<octave, noteIdx>> \in
            {on \in (range.startOctave .. range.endOctave) \X (0 .. 6) :
                /\ on[2] >= (IF on[1] = range.startOctave THEN range.startNote ELSE 0)
                /\ on[2] <= (IF on[1] = range.endOctave THEN range.endNote ELSE 6)}}

\* whiteKeys[Math.floor(pitch * (whiteKeys.length - 1))]
pitchToMidi(pitch, singerIndex) ==
    LET keys == whiteKeys(singerRanges[singerIndex + 1])
        keyIndex == (pitch * (Cardinality(keys) - 1)) \div 1000
    IN  CHOOSE key \in keys : Cardinality({lower \in keys : lower < key}) = keyIndex

\* One pass of voices.forEach in playHarmony: st is [syn, previousNotes,
\* playNote, updateNote].
PlayVoiceNeverRecords(st, voice, note) ==
    IF voice \notin DOMAIN st.previousNotes \/ st.previousNotes[voice] # note.midiNote
    THEN [st EXCEPT !.syn = playNote(@, voice, note.midiNote),
                    !.playNote = @ \cup {voice}]
    ELSE [st EXCEPT !.syn = updateNote(@, voice, note.midiNote),
                    !.updateNote = @ \cup {voice}]

PlayVoice(st, voice, note) ==
    IF voice \notin DOMAIN st.previousNotes \/ st.previousNotes[voice] # note.midiNote
    THEN [st EXCEPT !.syn = playNote(@, voice, note.midiNote),
                    !.previousNotes = (voice :> note.midiNote) @@ @,
                    !.playNote = @ \cup {voice}]
    ELSE [st EXCEPT !.syn = updateNote(@, voice, note.midiNote),
                    !.updateNote = @ \cup {voice}]

\* playHarmony(harmony) with audio enabled: what the loop leaves.
playHarmony(syn, previous, harmony) ==
    LET RECURSIVE Loop(_, _)
        Loop(st, k) ==
            IF k > Len(voices) THEN st
            ELSE Loop(PlayVoice(st, voices[k], harmony[voices[k]]), k + 1)
    IN  Loop([syn |-> syn, previousNotes |-> previous, playNote |-> {},
              updateNote |-> {}], 1)

\* stopAllVoices() with audio enabled: the synthesizer it leaves.
StopVoices(syn) ==
    LET RECURSIVE Loop(_, _)
        Loop(s, k) == IF k > Len(voices) THEN s ELSE Loop(stopNote(s, voices[k]), k + 1)
    IN  Loop(syn, 1)

NoPreviousNotes == [v \in {} |-> 0]

\* initializeAudio: initialize() catches its own errors, so audio is enabled
\* whether or not the context was created. The button is shown while audio is
\* not enabled.
InitializeAudio(contextCreated) ==
    /\ ~ audioEnabled
    /\ voiceSynth' = initialize(voiceSynth, contextCreated)
    /\ audioEnabled' = TRUE
    /\ aCall' = [NoAudioCall EXCEPT !.op = "initializeAudio"]
    /\ UNCHANGED previousNotes
    /\ UNCHANGED <<neuralVars, simpleVars, tableVars, nameVars>>

\* The audio half of stopAllVoices().
stopAllVoices(op) ==
    /\ IF audioEnabled
       THEN /\ voiceSynth' = StopVoices(voiceSynth)
            /\ previousNotes' = NoPreviousNotes
       ELSE UNCHANGED <<voiceSynth, previousNotes>>
    /\ aCall' = [NoAudioCall EXCEPT !.op = op]
    /\ UNCHANGED audioEnabled

\* The Stop button.
StopAllVoices ==
    /\ stopAllVoices("stopAllVoices")
    /\ UNCHANGED <<neuralVars, simpleVars, tableVars, nameVars>>

\* updateHarmony(activeSingerIndex, pitch, volume, vowel)
UpdateHarmony(activeSingerIndex, pitch, volume, vowel, vowelDraws) ==
    IF activeSingerIndex = 0 - 1 \/ vowel = "NONE"
    THEN /\ stopAllVoices("stopAllVoices")
         /\ UNCHANGED <<neuralVars, simpleVars, tableVars, nameVars>>
    ELSE /\ SimpleGenerateHarmony(
                singerNames[activeSingerIndex + 1],
                [midiNote |-> pitchToMidi(pitch, activeSingerIndex),
                 velocity |-> volume, vowel |-> vowel, tie |-> "absent"],
                volume, vowelDraws)
         /\ IF audioEnabled
            THEN \E played \in {playHarmony(voiceSynth, previousNotes, sCall'.result)} :
                     /\ voiceSynth' = played.syn
                     /\ previousNotes' = played.previousNotes
                     /\ aCall' = [NoAudioCall EXCEPT !.op = "playHarmony",
                                                     !.playNote = played.playNote,
                                                     !.updateNote = played.updateNote]
            ELSE /\ UNCHANGED <<voiceSynth, previousNotes>>
                 /\ aCall' = [NoAudioCall EXCEPT !.op = "updateHarmony"]
         /\ UNCHANGED audioEnabled

\* The cleanup of the camera effect, run when the hand preference changes while
\* audio is enabled: stopAllVoices(), then voiceSynth.dispose().
EffectCleanup ==
    /\ audioEnabled
    /\ voiceSynth' = dispose(StopVoices(voiceSynth))
    /\ previousNotes' = NoPreviousNotes
    /\ aCall' = [NoAudioCall EXCEPT !.op = "cleanup"]
    /\ UNCHANGED audioEnabled
    /\ UNCHANGED <<neuralVars, simpleVars, tableVars, nameVars>>

\* The inputs: two singers, three hand pitches (the soprano's 60, 71 and 72), a
\* vowel or none.
AudioSingers == {1, 3}
AudioPitches == {0, 430, 500}
AudioVowels == {"A", "NONE"}
ScannerVoices == Voices \cup {"alto"}
ScannerPitches == {60, 72}

---------------------------------------------------------------------------
(* Note names (types of the harmonizer): a string is the sequence of its   *)
(* characters.                                                             *)

NOTE_NAMES ==
    << <<"C">>, <<"C", "#">>, <<"D">>, <<"D", "#">>, <<"E">>, <<"F">>, <<"F", "#">>,
       <<"G">>, <<"G", "#">>, <<"A">>, <<"A", "#">>, <<"B">> >>

DigitChars == <<"0", "1", "2", "3", "4", "5", "6", "7", "8", "9">>

\* The decimal text of an integer, as a template literal makes it.
RECURSIVE Digits(_)
Digits(n) ==
    IF n < 10 THEN <<DigitChars[n + 1]>>
    ELSE Digits(n \div 10) \o <<DigitChars[(n % 10) + 1]>>

ToText(n) == IF n < 0 THEN <<"-">> \o Digits(0 - n) ELSE Digits(n)

\* isValidMidiNote, on integers.
isValidMidiNote(note) == note >= 21 /\ note <= 108

\* midiToNoteName with the octave one too high (no "- 1").
midiToNoteNameOctaveAbove(midi) ==
    NOTE_NAMES[(midi % 12) + 1] \o ToText(midi \div 12)

\* midiToNoteName, for midi >= 0
midiToNoteName(midi) ==
    NOTE_NAMES[(midi % 12) + 1] \o ToText((midi \div 12) - 1)

IsDigit(c) == \E d \in DOMAIN DigitChars : DigitChars[d] = c

\* parseInt of a text of decimal digits
RECURSIVE parseInt(_)
parseInt(text) ==
    IF Len(text) = 0 THEN 0
    ELSE parseInt(SubSeq(text, 1, Len(text) - 1)) * 10
             + ((CHOOSE d \in DOMAIN DigitChars : DigitChars[d] = text[Len(text)]) - 1)

\* noteName.match(/^([A-G]#?)(\d+)$/)
MatchNoteName(noteName) ==
    LET n == Len(noteName)
        noteLen == IF n >= 2 /\ noteName[2] = "#" THEN 2 ELSE 1
        ok == /\ n > noteLen
              /\ noteName[1] \in {"A", "B", "C", "D", "E", "F", "G"}
              /\ \A k \in (noteLen + 1) .. n : IsDigit(noteName[k])
    IN  [ok |-> ok,
         note |-> IF ok THEN SubSeq(noteName, 1, noteLen) ELSE <<>>,
         octave |-> IF ok THEN SubSeq(noteName, noteLen + 1, n) ELSE <<>>]

\* NOTE_NAMES.indexOf(note)
IndexOfNoteName(note) ==
    IF \E i \in DOMAIN NOTE_NAMES : NOTE_NAMES[i] = note
    THEN (CHOOSE i \in DOMAIN NOTE_NAMES : NOTE_NAMES[i] = note) - 1
    ELSE 0 - 1

\* noteNameToMidi: the number, or Undefined for null.
noteNameToMidi(noteName) ==
    LET match == MatchNoteName(noteName)
    IN  IF ~ match.ok THEN Undefined
        ELSE IF IndexOfNoteName(match.note) = 0 - 1 THEN Undefined
        ELSE (parseInt(match.octave) + 1) * 12 + IndexOfNoteName(match.note)

NoName == [op |-> "none", midi |-> Undefined, noteName |-> <<>>, back |-> Undefined]

\* midiToNoteName(midi), then noteNameToMidi of the name it gave.
NameAndBack(midi) ==
    /\ tName' = [op |-> "midiToNoteName", midi |-> midi,
                 noteName |-> midiToNoteName(midi),
                 back |-> noteNameToMidi(midiToNoteName(midi))]
    /\ UNCHANGED <<neuralVars, simpleVars, tableVars, audioVars>>

\* noteNameToMidi(noteName)
ParseName(noteName) ==
    /\ tName' = [op |-> "noteNameToMidi", midi |-> Undefined, noteName |-> noteName,
                 back |-> noteNameToMidi(noteName)]
    /\ UNCHANGED <<neuralVars, simpleVars, tableVars, audioVars>>

\* The inputs: every MIDI note up to a bound, and every text up to a length over
\* a few characters (letters in and out of A-G, the sharp, digits, a sign, a
\* lower-case letter, a blank).
MaxNameMidi == 127
MaxNameLen == 3
NameChars == {"A", "E", "G", "H", "#", "0", "1", "9", "-", "b", " "}
NameTexts == UNION {[1 .. n -> NameChars] : n \in 0 .. MaxNameLen}

---------------------------------------------------------------------------
(* Specifications.                                                         *)

InitNeural ==
    /\ voiceHistory = FreshHistory
    /\ nCall = NoCall
    /\ calls = 0

InitSimple ==
    /\ previousHarmony = NoHarmony
    /\ sCall = NoCall

InitTables ==
    /\ tLookup = NoLookup
    /\ tRow = NoRow
    /\ tSample = NoSample

InitAudio ==
    /\ voiceSynth = NewVoiceScanner
    /\ audioEnabled = FALSE
    /\ previousNotes = NoPreviousNotes
    /\ aCall = NoAudioCall

InitNames == tName = NoName

Init == InitNeural /\ InitSimple /\ InitTables /\ InitAudio /\ InitNames

Generate ==
    /\ calls < MaxCalls
    /\ \E leadVoice \in LeadVoices, in \in LeadInputs :
           GenerateHarmony(leadVoice, in.leadNote, in.volume, DrawProfiles)

ResetCall == calls < MaxCalls /\ Reset

Next == Generate \/ ResetCall

Spec == Init /\ [][Next]_vars

GenerateLong ==
    /\ calls < MaxLongCalls
    /\ \E in \in LongLeads :
           GenerateHarmony(in.leadVoice, in.leadNote, in.volume, LongProfiles)

ResetLong == calls < MaxLongCalls /\ Reset

NextLong == GenerateLong \/ ResetLong

SpecLong == Init /\ [][NextLong]_vars

GenerateSimple ==
    /\ \E leadMidi \in SimpleLeadPitches :
           \E style \in SimpleStyles :
               SimpleGenerateHarmony(style.leadVoice,
                                     [midiNote |-> leadMidi, velocity |-> style.volume,
                                      vowel |-> style.vowel, tie |-> "absent"],
                                     style.volume, style.vowelDraws)
    /\ UNCHANGED audioVars

NextSimple == GenerateSimple \/ SimpleReset

SpecSimple == Init /\ [][NextSimple]_vars

LookupAny == \E midiNote \in LookupPitches, tie \in Ties : Lookup(midiNote, tie)

ReadAnyRow == \E fromIdx \in Indices : ReadRow(fromIdx)

NextTables == LookupAny \/ ReadAnyRow

SpecTables == Init /\ [][NextTables]_vars

\* sampleFromProbabilities reads and writes no state: one call from the initial
\* state stands for every call.
SampleAny ==
    /\ tSample = NoSample
    /\ \E probabilities \in SampleVectors, draw \in SampleDraws :
           Sample(probabilities, draw[1], draw[2])

NextSample == SampleAny

SpecSample == Init /\ [][NextSample]_vars

\* The component: enabling audio, hand positions, the Stop button, the cleanup.
EnableAudio == \E contextCreated \in BOOLEAN : InitializeAudio(contextCreated)

HandMoves ==
    \E activeSingerIndex \in AudioSingers, pitch \in AudioPitches, vowel \in AudioVowels :
        UpdateHarmony(activeSingerIndex, pitch, 800, vowel, [v \in Voices |-> 500])

NextAudio == EnableAudio \/ HandMoves \/ StopAllVoices \/ EffectCleanup

SpecAudio == Init /\ [][NextAudio]_vars

\* A VoiceScanner called directly, in any order.
ScannerInitialize == \E contextCreated \in BOOLEAN : Initialize(contextCreated)

ScannerPlayNote ==
    \E voice \in ScannerVoices, midiNote \in ScannerPitches : PlayNote(voice, midiNote)

ScannerUpdateNote ==
    \E voice \in ScannerVoices, midiNote \in ScannerPitches : UpdateNote(voice, midiNote)

ScannerStopNote == \E voice \in ScannerVoices : StopNote(voice)

NextScanner ==
    ScannerInitialize \/ ScannerPlayNote \/ ScannerUpdateNote \/ ScannerStopNote
        \/ Dispose

SpecScanner == Init /\ [][NextScanner]_vars

\* The conversions read and write no state: one call from the initial state
\* stands for every call.
NameAnyMidi == tName = NoName /\ \E midi \in 0 .. MaxNameMidi : NameAndBack(midi)

ParseAnyName == tName = NoName /\ \E noteName \in NameTexts : ParseName(noteName)

NextNames == NameAnyMidi \/ ParseAnyName

SpecNames == Init /\ [][NextNames]_vars

\* createHarmonizer hands out one engine or the other: a run drives the
\* NeuralHarmonizer or the SimpleHarmonizer, never both.
NeuralUntouched == calls = 0 /\ nCall = NoCall
SimpleUntouched == sCall = NoCall /\ previousHarmony = NoHarmony

EitherGenerate == SimpleUntouched /\ Generate
EitherReset == SimpleUntouched /\ ResetCall
EitherGenerateSimple == NeuralUntouched /\ GenerateSimple
EitherSimpleReset == NeuralUntouched /\ SimpleReset

NextEither ==
    EitherGenerate \/ EitherReset \/ EitherGenerateSimple \/ EitherSimpleReset

SpecEither == Init /\ [][NextEither]_vars

---------------------------------------------------------------------------
(* Properties.                                                             *)

\* The closed pitch range of each role, as the properties state it.
RoleRange ==
    [bass |-> 40 .. 64, tenor |-> 48 .. 69,
     mezzoSoprano |-> 57 .. 77, soprano |-> 60 .. 84]

Roles == {"bass", "tenor", "mezzoSoprano", "soprano"}

NeuralReturned == nCall.op = "generateHarmony" /\ nCall.outcome = "returned"
SimpleReturned == sCall.op = "generateHarmony" /\ sCall.outcome = "returned"

InRoleRanges(harmony) ==
    \A v \in Roles : v \in DOMAIN harmony /\ harmony[v].midiNote \in RoleRange[v]

\* C1: whatever calls came before, every note of a result the NeuralHarmonizer
\* returns (generator path or fallback, lead pitch in or out of the vocabulary,
\* any draws) has its pitch inside the closed range of its role.
C1_NeuralPitchesInRange == NeuralReturned => InRoleRanges(nCall.result)

\* The generator answered a soprano lead of pitch 36: the lead's own note was
\* moved an octave up and then clamped to the bottom of the soprano range.
C1_Witness ==
    /\ NeuralReturned
    /\ nCall.path = "generator"
    /\ nCall.leadVoice = "soprano"
    /\ nCall.leadNote.midiNote = 36
    /\ nCall.result["soprano"].midiNote = 60
    /\ calls = 2

\* C2: every pitch of a harmony the SimpleHarmonizer returns is inside the range
\* of its voice, smoothed or not: the smoothing never puts an octave alternative
\* outside the range in place of the fitted pitch.
C2_SimplePitchesInRange ==
    /\ SimpleReturned => InRoleRanges(sCall.result)
    /\ HasPrevious(previousHarmony) => InRoleRanges(previousHarmony)

\* A smoothed call whose bass is not the fitted pitch of the triad: the smoothing
\* took an octave alternative.
C2_Witness ==
    /\ SimpleReturned
    /\ sCall.path = "smoothed"
    /\ sCall.result["bass"].midiNote
           # generateChordHarmony(sCall.leadNote.midiNote,
                                  getChordType(sCall.leadNote.midiNote))["bass"].midiNote

\* C3: a result returned by generateHarmony, of the NeuralHarmonizer on either
\* path or of the SimpleHarmonizer, has exactly the four roles, each with a note.
IsNote(note) ==
    /\ DOMAIN note = {"midiNote", "velocity", "vowel", "tie"}
    /\ note.midiNote \in Int
    /\ note.velocity \in Nat
    /\ note.vowel \in {"A", "O"}

FullyPopulated(harmony) ==
    /\ DOMAIN harmony = Roles
    /\ \A v \in Roles : IsNote(harmony[v])

C3_ExactlyFourRoles ==
    /\ NeuralReturned => FullyPopulated(nCall.result)
    /\ SimpleReturned => FullyPopulated(sCall.result)

\* The generator returned a result for a tenor lead of pitch 72, the lead's note
\* in it an octave lower.
C3_Witness ==
    /\ NeuralReturned
    /\ nCall.path = "generator"
    /\ nCall.leadVoice = "tenor"
    /\ nCall.leadNote.midiNote = 72
    /\ nCall.result["tenor"].midiNote = 60
    /\ Cardinality(DOMAIN nCall.result) = 4

\* C4: generateHarmony and reset never raise an error, whatever the lead note and
\* the name of the lead role. The code raises one: see C4_RaisedForUnknownRole.
C4_NeverRaises ==
    /\ nCall.op # "none" => nCall.outcome = "returned"
    /\ sCall.op # "none" => sCall.outcome = "returned"

\* The call generateHarmony("alto", note in the vocabulary, volume) threw.
C4_RaisedForUnknownRole ==
    /\ nCall.op = "generateHarmony"
    /\ nCall.leadVoice = "alto"
    /\ nCall.leadNote.midiNote = 72
    /\ nCall.outcome = "threw"

OneOctaveThenNearest(pitch, range) ==
    LET moved == IF \A q \in range : pitch < q THEN pitch + 12
                 ELSE IF \A q \in range : pitch > q THEN pitch - 12
                 ELSE pitch
    IN  CHOOSE q \in range : \A r \in range : Abs(q - moved) <= Abs(r - moved)

FixedOffsets ==
    [bass |-> 0 - 12, tenor |-> 0 - 7, mezzoSoprano |-> 0 - 3, soprano |-> 0]

HistoriesBounded == \A v \in Roles : Len(voiceHistory[v]) <= 8

FullHistoryShifts ==
    \A v \in Roles :
        (/\ nCall'.op = "generateHarmony"
         /\ Len(voiceHistory[v]) = 8
         /\ voiceHistory'[v] # voiceHistory[v])
        => /\ Len(voiceHistory'[v]) = 8
           /\ SubSeq(voiceHistory'[v], 1, 7) = SubSeq(voiceHistory[v], 2, 8)

C6_HistoryBoundedOldestDropped == [] HistoriesBounded /\ [][FullHistoryShifts]_vars

\* The soprano history is full and START, which only reset and the constructor
\* put there, is no longer in it: a push has shifted it out.
C6_Witness ==
    /\ nCall.op = "generateHarmony"
    /\ Len(voiceHistory["soprano"]) = 8
    /\ \A k \in 1 .. 8 : voiceHistory["soprano"][k] # START

\* C7: after reset every voice history is the one-element sequence [START], the
\* state of a fresh instance, so the next generateHarmony call has the possible
\* results of the same call on a fresh instance.
PossibleResults(history, in) ==
    {done.result :
        done \in generateHarmony(history, in.leadVoice, in.leadNote, in.volume, LongProfiles)}

C7_ResetIsFresh ==
    nCall.op = "reset" =>
        /\ DOMAIN voiceHistory = Roles
        /\ \A v \in Roles : voiceHistory[v] = <<NOTE_VOCABULARY(<<"START">>)>>
        /\ voiceHistory = FreshHistory
        /\ \A in \in LongLeads :
               PossibleResults(voiceHistory, in) = PossibleResults(FreshHistory, in)

\* A reset that was the last of the calls the run may make.
C7_Witness ==
    /\ nCall.op = "reset"
    /\ calls = MaxLongCalls
    /\ voiceHistory["bass"] = <<0>>

\* The pitch of the range an octave search from the given pitch ends on: the
\* pitch itself if it is in the range, else the first pitch of the range met going
\* up (from below) or down (from above) by octaves.
OctaveSearch(pitch, range) ==
    CHOOSE q \in range :
        /\ (q - pitch) % 12 = 0
        /\ pitch \in range => q = pitch
        /\ (\A r \in range : pitch < r) => (q - 12) \notin range
        /\ (\A r \in range : pitch > r) => (q + 12) \notin range

UnsmoothedTriad(leadMidi) ==
    LET third == IF leadMidi % 12 \in {0, 2, 4, 5, 7, 9} THEN 4 ELSE 3
    IN  [bass |-> OctaveSearch(leadMidi - 12, RoleRange["bass"]),
         tenor |-> OctaveSearch(leadMidi - 7, RoleRange["tenor"]),
         mezzoSoprano |-> OctaveSearch(leadMidi - third, RoleRange["mezzoSoprano"]),
         soprano |-> OctaveSearch(leadMidi, RoleRange["soprano"])]

ResetClearsPrevious == sCall.op = "reset" => previousHarmony = NoHarmony

FirstCallUnsmoothed ==
    (sCall.op \in {"none", "reset"} /\ sCall'.op = "generateHarmony")
    => /\ DOMAIN sCall'.result = Roles
       /\ \A v \in Roles :
              sCall'.result[v].midiNote = UnsmoothedTriad(sCall'.leadNote.midiNote)[v]

\* C8: reset of the SimpleHarmonizer clears the previous harmony, and the
\* generateHarmony call that comes first on a fresh instance or right after a
\* reset returns the unsmoothed range-fitted triad of its lead pitch, whatever
\* was called before the reset.
C8_ResetThenUnsmoothed == [] ResetClearsPrevious /\ [][FirstCallUnsmoothed]_vars

\* A first call with lead pitch 60: the major third below, 56, is fitted to 68.
C8_Witness ==
    /\ SimpleReturned
    /\ sCall.path = "first"
    /\ sCall.leadNote.midiNote = 60
    /\ sCall.result["mezzoSoprano"].midiNote = 68
    /\ sCall.result["bass"].midiNote = 48

\* C9: a row of the transition matrix whose 'from' index is a (pitch, tie) state
\* has non-negative entries that sum to 1, with zero in the columns of the control
\* tokens; the rows of the control tokens are all zero.
ControlIndices ==
    {NOTE_VOCABULARY(<<"START">>), NOTE_VOCABULARY(<<"END">>), NOTE_VOCABULARY(<<"|">>)}

RECURSIVE SumOfNumerators(_, _)
SumOfNumerators(row, n) ==
    IF n = 0 THEN 0 ELSE row[n].num + SumOfNumerators(row, n - 1)

C9_RowsStochastic ==
    tRow.from # Undefined =>
        /\ Len(tRow.row) = 73
        /\ \A n \in 1 .. Len(tRow.row) : tRow.row[n].num >= 0 /\ tRow.row[n].den > 0
        /\ \A c \in ControlIndices : tRow.row[c + 1].num = 0
        /\ IF tRow.from \in ControlIndices
           THEN \A n \in 1 .. Len(tRow.row) : tRow.row[n].num = 0
           ELSE /\ \A n \in 1 .. Len(tRow.row) : tRow.row[n].den = tRow.row[1].den
                /\ SumOfNumerators(tRow.row, Len(tRow.row)) = tRow.row[1].den

\* The row of (60, false), index 32: staying on 60 has weight 0.3 of the sum.
C9_Witness ==
    /\ tRow.from = 32
    /\ tRow.row[33].num = 300
    /\ tRow.row[33].den > 300

\* C10: the 3 control tokens and the (pitch, tie) pairs of the white keys of
\* MIDI 36..95 have distinct indices that fill 0..72, the key at the index of a
\* pair is the pair, and a pitch outside that set is not found.
WhitePitches == {m \in 36 .. 95 : m % 12 \in {0, 2, 4, 5, 7, 9, 11}}

VocabularyKeys ==
    {<<"START">>, <<"END">>, <<"|">>}
        \cup {<<m, tie>> : m \in WhitePitches, tie \in {"true", "false"}}

C10_VocabularyBijection ==
    /\ Cardinality(VocabularyKeys) = 73
    /\ {NOTE_VOCABULARY(key) : key \in VocabularyKeys} = 0 .. 72
    /\ \A index \in 0 .. 72 : NOTE_VOCABULARY(VOCABULARY_TO_NOTE(index)) = index
    /\ IF tLookup.midiNote \in WhitePitches
       THEN /\ tLookup.index \in 3 .. 72
            /\ tLookup.key = <<tLookup.midiNote,
                               IF tLookup.tie = "true" THEN "true" ELSE "false">>
       ELSE tLookup.index = Undefined

\* The lookup of (60, false) found index 32, whose key is (60, false).
C10_Witness ==
    /\ tLookup.midiNote = 60
    /\ tLookup.tie = "false"
    /\ tLookup.index = 32
    /\ tLookup.key = <<60, "false">>

\* C11: in the SimpleHarmonizer, whatever was called before, a generateHarmony
\* call that follows a generateHarmony call with the same lead pitch gives every
\* voice the pitch the first of the two gave it.
SameLeadSamePitches ==
    (/\ sCall.op = "generateHarmony"
     /\ sCall'.op = "generateHarmony"
     /\ sCall'.leadNote.midiNote = sCall.leadNote.midiNote)
    => \A v \in Roles : sCall'.result[v].midiNote = sCall.result[v].midiNote

C11_SmoothingIdempotent == [][SameLeadSamePitches]_vars

\* A smoothed call with lead 60 whose tenor is 65, the octave above the fitted 53:
\* the state a second call with lead 60 comes back to.
C11_Witness ==
    /\ SimpleReturned
    /\ sCall.path = "smoothed"
    /\ sCall.leadNote.midiNote = 60
    /\ sCall.result["tenor"].midiNote = 65
    /\ previousHarmony["tenor"].midiNote = 65
    /\ SmoothNote(53, 65, "tenor") = 65

\* C12: in every generateHarmony call of the NeuralHarmonizer that takes the
\* generator path, the index sampled for a non-lead voice is the index of a
\* (pitch, tie) key, never of START, END or the separator, whatever the draws; so
\* the index decodes to a note and the lead note at 40% volume is never used.
GeneratorReturned == NeuralReturned /\ nCall.path = "generator"

C12_NoControlTokenSampled ==
    GeneratorReturned =>
        \A v \in Roles \ {nCall.leadVoice} :
            /\ v \in DOMAIN nCall.passes
            /\ nCall.passes[v].selectedIndex \notin ControlIndices
            /\ nCall.passes[v].selectedIndex \in 3 .. 72
            /\ nCall.passes[v].decoded

\* The first call of a soprano lead: the bass pass had START as its current state
\* and at the head of its context, and sampled a pitch all the same.
C12_Witness ==
    /\ GeneratorReturned
    /\ nCall.leadVoice = "soprano"
    /\ nCall.passes["bass"].lastNote = START
    /\ nCall.passes["bass"].context[1] = START
    /\ nCall.passes["bass"].selectedIndex >= 3
    /\ nCall.passes["bass"].decoded

\* C13 as stated: on the generator path the note returned for the lead role has
\* the pitch, vowel and tie of the input lead note and the given volume as its
\* velocity.
C13_LeadNoteUnchanged ==
    GeneratorReturned =>
        nCall.result[nCall.leadVoice] = [nCall.leadNote EXCEPT !.velocity = nCall.volume]

\* C13, amended: on the generator path the note returned for the lead role has the
\* vowel and tie of the input lead note and the given volume as its velocity; its
\* pitch is the lead pitch when that lies in the lead role's range, and otherwise
\* the lead pitch moved one octave toward the range and then clamped to it.
C13_LeadNoteRangeConstrained ==
    GeneratorReturned =>
        LET note == nCall.result[nCall.leadVoice]
            lead == nCall.leadNote
        IN  /\ note.vowel = lead.vowel
            /\ note.tie = lead.tie
            /\ note.velocity = nCall.volume
            /\ note.midiNote = OneOctaveThenNearest(lead.midiNote, RoleRange[nCall.leadVoice])
            /\ lead.midiNote \in RoleRange[nCall.leadVoice] => note.midiNote = lead.midiNote

\* A soprano lead of pitch 36, tied, vowel O, volume 0.8: the note returned for the
\* soprano has pitch 60.
C13_Witness ==
    /\ GeneratorReturned
    /\ nCall.leadVoice = "soprano"
    /\ nCall.leadNote.midiNote = 36
    /\ nCall.result["soprano"] =
           [midiNote |-> 60, velocity |-> 800, vowel |-> "O", tie |-> "true"]

\* fit: add 12 while below the minimum, then subtract 12 while above the maximum,
\* then clamp.
RECURSIVE FitUp(_, _)
FitUp(pitch, lo) == IF pitch < lo THEN FitUp(pitch + 12, lo) ELSE pitch

RECURSIVE FitDown(_, _)
FitDown(pitch, hi) == IF pitch > hi THEN FitDown(pitch - 12, hi) ELSE pitch

Fit(pitch, lo, hi) ==
    LET fitted == FitDown(FitUp(pitch, lo), hi)
    IN  IF fitted < lo THEN lo ELSE IF fitted > hi THEN hi ELSE fitted

FittedTriad(lead) ==
    LET third == IF lead % 12 \in {0, 2, 4, 5, 7, 9} THEN 4 ELSE 3
    IN  [bass |-> Fit(lead - 12, 40, 64), tenor |-> Fit(lead - 7, 48, 69),
         mezzoSoprano |-> Fit(lead - third, 57, 77), soprano |-> Fit(lead, 60, 84)]

\* C14: with no previous harmony the SimpleHarmonizer returns bass = fit(lead - 12,
\* [40,64]), tenor = fit(lead - 7, [48,69]), mezzoSoprano = fit(lead - third,
\* [57,77]), soprano = fit(lead, [60,84]), third being 4 when lead mod 12 is in
\* {0,2,4,5,7,9} and 3 otherwise; for lead 60 that is 48, 53, 68, 60.
C14_FirstCallIsFittedTriad ==
    /\ FittedTriad(60) = [bass |-> 48, tenor |-> 53, mezzoSoprano |-> 68, soprano |-> 60]
    /\ (SimpleReturned /\ sCall.path = "first") =>
           /\ DOMAIN sCall.result = Roles
           /\ \A v \in Roles :
                  sCall.result[v].midiNote = FittedTriad(sCall.leadNote.midiNote)[v]

\* A first call with lead 46, pitch class 10: the minor third below, 43, is
\* raised to 67, the bass to 46, the tenor to 51, the soprano to 70.
C14_Witness ==
    /\ SimpleReturned
    /\ sCall.path = "first"
    /\ sCall.leadNote.midiNote = 46
    /\ sCall.result["bass"].midiNote = 46
    /\ sCall.result["tenor"].midiNote = 51
    /\ sCall.result["mezzoSoprano"].midiNote = 67
    /\ sCall.result["soprano"].midiNote = 70

\* The octave alternatives of a new pitch that lie in the range and are strictly
\* closer to the previous pitch than the new pitch is.
CloserAlternatives(new, prev, range) ==
    {alt \in {new + 12, new - 12} :
        alt \in range /\ Abs(alt - prev) < Abs(new - prev)}

\* r is the pitch the smoothing is stated to give; at most one alternative can be
\* strictly closer.
IsSmoothedPitch(r, new, prev, range) ==
    \A closer \in {CloserAlternatives(new, prev, range)} :
        /\ Cardinality(closer) <= 1
        /\ IF Abs(new - prev) <= 6 THEN r = new
           ELSE IF closer # {} THEN r \in closer
           ELSE r = new

SmoothedAsStated ==
    (sCall'.op = "generateHarmony" /\ HasPrevious(previousHarmony)) =>
        \A triad \in {FittedTriad(sCall'.leadNote.midiNote)} :
            \A v \in Roles :
                IsSmoothedPitch(sCall'.result[v].midiNote, triad[v],
                                previousHarmony[v].midiNote, RoleRange[v])

\* C15: when the SimpleHarmonizer smooths, a voice whose new pitch is more than 6
\* semitones from its previous pitch gets the octave alternative (new + 12 or
\* new - 12) that is in the voice's range and strictly closer to the previous
\* pitch, if there is one, and the new pitch otherwise; a voice at most 6
\* semitones away keeps the new pitch. A new pitch 9 away with an in-range
\* alternative 3 away yields the alternative.
C15_SmoothingTakesCloserOctave ==
    /\ [][SmoothedAsStated]_vars
    /\ [](IsSmoothedPitch(65, 53, 62, RoleRange["tenor"])
              /\ ~ IsSmoothedPitch(53, 53, 62, RoleRange["tenor"]))

\* A smoothed call with lead 72: the fitted bass 60 was replaced by 48, the octave
\* below, and the fitted soprano 72 kept.
C15_Witness ==
    /\ SimpleReturned
    /\ sCall.path = "smoothed"
    /\ sCall.leadNote.midiNote = 72
    /\ FittedTriad(72)["bass"] = 60
    /\ sCall.result["bass"].midiNote = 48
    /\ sCall.result["soprano"].midiNote = 72

\* The pitch of the key at an index of a (pitch, tie) state, and whether it is tied.
PitchAt(index) == VOCABULARY_TO_NOTE(index)[1]
TiedAt(index) == VOCABULARY_TO_NOTE(index)[2] = "true"

\* The base weight of a distance, in thousandths.
BaseWeight(d) ==
    IF d = 0 THEN 300
    ELSE IF d \in 1 .. 2 THEN 250
    ELSE IF d \in 3 .. 4 THEN 200
    ELSE IF d \in 5 .. 7 THEN 150
    ELSE IF d = 12 THEN 80
    ELSE 20

\* The un-normalized weight of a pair at distance d, times 100, given the pitch
\* classes of distance that earn the consonance bonus.
WeightTimes100(d, tiedTo, bonusClasses) ==
    BaseWeight(d) * (IF d % 12 \in bonusClasses THEN 15 ELSE 10)
                  * (IF tiedTo /\ d = 0 THEN 12 ELSE 10)

\* The row read is that of a (pitch, tie) state and its weights are those of
\* WeightTimes100 for the given bonus classes. (The numerators of a row are
\* its un-normalized weights.)
RowWeightsAre(bonusClasses) ==
    (tRow.from # Undefined /\ tRow.from \notin ControlIndices) =>
        \A to \in (0 .. 72) \ ControlIndices :
            tRow.row[to + 1].num * 100
                = WeightTimes100(Abs(PitchAt(to) - PitchAt(tRow.from)), TiedAt(to),
                                 bonusClasses)

\* C16: the un-normalized weight of every ordered pair of pitch states at distance
\* d carries the factor 1.5 exactly when d mod 12 is in {0,3,4,5,7,8,9}: unisons
\* and octaves get the bonus. The code gives them none: see C16_Witness.
C16_BonusIncludesUnisonAndOctave == RowWeightsAre({0, 3, 4, 5, 7, 8, 9})

\* The row of (60, false), index 32: the weight of staying on (60, false) is 0.3
\* and that of the octave (72, false), index 46, is 0.08, both without the bonus.
C16_Witness ==
    /\ tRow.from = 32
    /\ PitchAt(46) = 72
    /\ tRow.row[33].num = 300
    /\ tRow.row[47].num = 80

\* C17: the un-normalized weight of every ordered pair of pitch states at distance
\* d has base 0.30 for d = 0, 0.25 for d in 1..2, 0.20 for d in 3..4, 0.15 for d in
\* 5..7, 0.08 for d = 12 and 0.02 otherwise, times 1.2 exactly when the destination
\* is tied and d = 0 (and times the consonance factor, which the code applies for
\* d mod 12 in {3,4,5,7,8,9}).
C17_BaseWeightsAndTieBonus == RowWeightsAre({3, 4, 5, 7, 8, 9})

\* The row of (60, false): its tied unison (60, true), index 31, weighs 0.36, one
\* step up to (62, true), index 33, weighs 0.25 with no tie bonus, and the fifth
\* (67, false), index 40, weighs 0.225.
C17_Witness ==
    /\ tRow.from = 32
    /\ tRow.row[32].num = 360
    /\ PitchAt(33) = 62 /\ TiedAt(33)
    /\ tRow.row[34].num = 250
    /\ PitchAt(40) = 67
    /\ tRow.row[41].num = 225

\* The rank (from 0) of index i in a vector sorted by descending value, equal
\* values in index order, and the index that has rank k.
RankOf(probabilities, i) ==
    Cardinality({j \in 0 .. (Len(probabilities) - 1) :
                    \/ probabilities[j + 1] > probabilities[i + 1]
                    \/ probabilities[j + 1] = probabilities[i + 1] /\ j < i})

Ranked(probabilities, k) ==
    CHOOSE i \in 0 .. (Len(probabilities) - 1) : RankOf(probabilities, i) = k

OwnLength(v) ==
    Len(nCall.passes[v].context)
        - (IF Len(voiceHistory[nCall.leadVoice]) < 2
           THEN Len(voiceHistory[nCall.leadVoice]) ELSE 2)

\* C19: in the context a non-lead voice passes to the generator, position 0 holds
\* the voice's most recent entry, so that with the weight 0.3 * e^(-0.5 * i) of
\* position i no older entry of the voice's history weighs more than a more
\* recent one. The code puts the oldest entry first: see C19_Witness.
C19_MostRecentFirst ==
    GeneratorReturned =>
        \A v \in Roles \ {nCall.leadVoice} :
            /\ nCall.passes[v].context[1] = nCall.passes[v].lastNote
            /\ \A older \in 1 .. OwnLength(v) :
                   \A newer \in (older + 1) .. OwnLength(v) :
                       ContextWeight(newer - 1) >= ContextWeight(older - 1)

\* The second call on an instance: the bass context starts with START, the older
\* of its two entries, and the note the bass got in the first call comes second,
\* with weight 0.182 against 0.3.
C19_Witness ==
    /\ GeneratorReturned
    /\ nCall.leadVoice = "soprano"
    /\ OwnLength("bass") = 2
    /\ nCall.passes["bass"].context[1] = START
    /\ nCall.passes["bass"].context[2] = nCall.passes["bass"].lastNote
    /\ nCall.passes["bass"].lastNote # START
    /\ ContextWeight(1) < ContextWeight(0)

\* The last k entries of a sequence, or all of it if it has fewer.
LastEntries(seq, k) ==
    IF Len(seq) <= k THEN seq
    ELSE [i \in 1 .. k |-> seq[Len(seq) - k + i]]

ContextAsStated ==
    (/\ nCall'.op = "generateHarmony"
     /\ nCall'.path = "generator"
     /\ nCall'.outcome = "returned")
    => \A v \in Roles \ {nCall'.leadVoice} :
           LET own == voiceHistory[v]
               lead == voiceHistory'[nCall'.leadVoice]
               leadIndex == NOTE_VOCABULARY(LeadKey(nCall'.leadNote.midiNote,
                                                    nCall'.leadNote.tie))
           IN  /\ lead[Len(lead)] = leadIndex
               /\ nCall'.passes[v].context = LastEntries(own, 4) \o LastEntries(lead, 2)
               /\ Len(own) > 0 => nCall'.passes[v].lastNote = own[Len(own)]
               /\ Len(own) = 0 => nCall'.passes[v].lastNote = leadIndex

\* C20: for each non-lead voice the generator gets a context made of the last 4
\* entries (or fewer) of the voice's own history followed by the last 2 entries
\* (or fewer) of the lead's history, which ends with the current lead index, and
\* gets the voice's most recent entry as the current state, the lead index
\* standing in only for an empty history.
C20_ContextAndCurrentState == [][ContextAsStated]_vars

\* A call with a full context: 4 entries of the bass, then 2 of the lead, the last
\* of them the index of the lead note (72, false), and the bass's latest entry as
\* the current state.
C20_Witness ==
    /\ GeneratorReturned
    /\ nCall.leadVoice = "soprano"
    /\ Len(nCall.passes["bass"].context) = 6
    /\ nCall.passes["bass"].context[6] = NOTE_VOCABULARY(<<72, "false">>)
    /\ nCall.passes["bass"].context[4] = nCall.passes["bass"].lastNote
    /\ Len(voiceHistory["bass"]) > 4

\* The pitch a voice had when applyVoiceRangeConstraints received the harmony: the
\* lead pitch plus the fixed offset on the fallback path; on the generator path the
\* lead pitch for the lead role and the pitch of the sampled key for the others.
Unconstrained(call, v) ==
    IF call.path = "fallback" THEN call.leadNote.midiNote + FixedOffsets[v]
    ELSE IF v = call.leadVoice \/ ~ call.passes[v].decoded THEN call.leadNote.midiNote
    ELSE PitchAt(call.passes[v].selectedIndex)

\* clamp limits a pitch to a closed range.
Clamp(p, range) ==
    IF \A q \in range : p < q THEN CHOOSE q \in range : \A r \in range : q <= r
    ELSE IF \A q \in range : p > q THEN CHOOSE q \in range : \A r \in range : q >= r
    ELSE p

SingleStep(p, range) ==
    IF \A q \in range : p < q THEN Clamp(p + 12, range)
    ELSE IF \A q \in range : p > q THEN Clamp(p - 12, range)
    ELSE p

\* C21: the range enforcement of the NeuralHarmonizer is single-step: for every
\* role, a pitch p handed to it comes back as clamp(p + 12) if p is below the
\* role's minimum, clamp(p - 12) if it is above the maximum, and p otherwise; never
\* more than one octave is taken before the clamp.
C21_SingleStepRange ==
    /\ NeuralReturned =>
           \A v \in Roles :
               nCall.result[v].midiNote
                   = SingleStep(Unconstrained(nCall, v), RoleRange[v])
    \* the enforcement itself, on every pitch and not only those the calls met
    /\ nCall = NoCall =>
           \A v \in Roles, p \in LookupPitches :
               applyVoiceRangeConstraints(
                   [w \in Roles |-> [midiNote |-> p, velocity |-> 0,
                                     vowel |-> "A", tie |-> "absent"]])[v].midiNote
                   = SingleStep(p, RoleRange[v])

\* A bass lead of pitch 95 on the generator path: 95 - 12 = 83 is clamped to 64; a
\* second octave down would have given 59 (71 is still above the range).
C21_Witness ==
    /\ GeneratorReturned
    /\ nCall.leadVoice = "bass"
    /\ nCall.leadNote.midiNote = 95
    /\ Unconstrained(nCall, "bass") = 95
    /\ nCall.result["bass"].midiNote = 64
    /\ 95 - 24 \notin RoleRange["bass"]
    /\ 95 - 36 \in RoleRange["bass"]

FallbackKeepsHistories ==
    (nCall'.op = "generateHarmony" /\ nCall'.path = "fallback")
    => \A v \in Roles : voiceHistory'[v] = voiceHistory[v]

\* C22: a generateHarmony call of the NeuralHarmonizer whose lead (pitch, tie) is
\* not in the vocabulary leaves all four voice histories as they were; a later
\* call reads nothing but the histories, so what it can return is what it could
\* return had the call not been made.
C22_FallbackKeepsHistories == [][FallbackKeepsHistories]_vars

\* A fallback call made after a generator call: the histories still hold the two
\* entries the generator call left in each.
C22_Witness ==
    /\ NeuralReturned
    /\ nCall.path = "fallback"
    /\ nCall.leadVoice \in Roles
    /\ \A v \in Roles : Len(voiceHistory[v]) = 2

\* C23: in the SimpleHarmonizer the pitch returned for the lead role is the lead
\* pitch supplied, whenever that pitch lies in the lead role's range and the
\* smoothing has not moved the lead role's note, for every lead role. The code
\* derives all four pitches from the lead pitch by role (bass an octave below,
\* soprano at the lead pitch) whichever role leads: see C23_Witness.
C23_LeadSingsSuppliedPitch ==
    (/\ SimpleReturned
     /\ sCall.leadVoice \in Roles
     /\ sCall.leadNote.midiNote \in RoleRange[sCall.leadVoice]
     /\ sCall.result[sCall.leadVoice].midiNote
            = FittedTriad(sCall.leadNote.midiNote)[sCall.leadVoice])
    => sCall.result[sCall.leadVoice].midiNote = sCall.leadNote.midiNote

\* A first call with the bass leading at pitch 60, inside the bass range: the bass
\* is returned at 48 and the soprano, which does not lead, at 60.
C23_Witness ==
    /\ SimpleReturned
    /\ sCall.path = "first"
    /\ sCall.leadVoice = "bass"
    /\ sCall.leadNote.midiNote = 60
    /\ 60 \in RoleRange["bass"]
    /\ sCall.result["bass"].midiNote = 48
    /\ sCall.result["soprano"].midiNote = 60

\* The latest entry of a voice's history.
LatestEntry(v) == voiceHistory[v][Len(voiceHistory[v])]

\* C24: after a generator-path call, for every non-lead voice the pitch returned is
\* the pitch of the vocabulary entry the call pushed last onto that voice's
\* history: the history records the pitch that was emitted. The code pushes the
\* sampled entry and constrains the returned pitch afterwards: see C24_Witness.
C24_HistoryRecordsEmittedPitch ==
    GeneratorReturned =>
        \A v \in Roles \ {nCall.leadVoice} :
            /\ LatestEntry(v) = nCall.passes[v].selectedIndex
            /\ nCall.result[v].midiNote = PitchAt(LatestEntry(v))

\* A call where the entry pushed for some non-lead voice has a pitch outside the
\* voice's range: the history holds that pitch, the result the constrained one.
C24_Witness ==
    /\ GeneratorReturned
    /\ \E v \in Roles \ {nCall.leadVoice} :
           /\ LatestEntry(v) = nCall.passes[v].selectedIndex
           /\ PitchAt(LatestEntry(v)) \notin RoleRange[v]
           /\ nCall.result[v].midiNote = SingleStep(PitchAt(LatestEntry(v)), RoleRange[v])
           /\ nCall.result[v].midiNote # PitchAt(LatestEntry(v))

HistoriesAligned ==
    \A v \in Roles :
        /\ Len(voiceHistory[v]) \in 1 .. 8
        /\ Len(voiceHistory[v]) = Len(voiceHistory["bass"])

\* after is before with one entry appended, the oldest dropped if that made nine.
OneAppended(before, after) ==
    IF Len(before) < 8
    THEN Len(after) = Len(before) + 1 /\ SubSeq(after, 1, Len(before)) = before
    ELSE Len(after) = 8 /\ SubSeq(after, 1, 7) = SubSeq(before, 2, 8)

AppendsOneOrNone ==
    /\ (nCall'.op = "generateHarmony" /\ nCall'.path = "generator"
            /\ nCall'.outcome = "returned")
       => \A v \in Roles : OneAppended(voiceHistory[v], voiceHistory'[v])
    /\ (nCall'.op = "generateHarmony" /\ nCall'.path = "fallback")
       => \A v \in Roles : voiceHistory'[v] = voiceHistory[v]
    /\ nCall'.op = "reset" => \A v \in Roles : Len(voiceHistory'[v]) = 1

\* C25: between the calls of a NeuralHarmonizer, after any sequence of
\* generateHarmony (the lead role changing between calls) and reset, the four
\* voice histories have one and the same length, from 1 to 8: a generator-path
\* call appends exactly one entry to each of the four, a fallback-path call none.
C25_HistoriesSameLength == [] HistoriesAligned /\ [][AppendsOneOrNone]_vars

\* A generator-path call led by the bass on histories the soprano led before, all
\* four of them full: each is still 8 long and ends with the entry of this call.
C25_Witness ==
    /\ GeneratorReturned
    /\ nCall.leadVoice = "bass"
    /\ \A v \in Roles : Len(voiceHistory[v]) = 8
    /\ \E k \in 1 .. 7 : voiceHistory["soprano"][k] = NOTE_VOCABULARY(<<72, "false">>)
    /\ LatestEntry("bass") = NOTE_VOCABULARY(<<48, "true">>)
    /\ LatestEntry("tenor") = nCall.passes["tenor"].selectedIndex

\* The offset of each role from the lead pitch: the third is 4 or 3 by the pitch
\* class of the lead.
ChordOffset(v, lead) ==
    IF v = "bass" THEN 12
    ELSE IF v = "tenor" THEN 7
    ELSE IF v = "mezzoSoprano"
    THEN (IF lead % 12 \in {0, 2, 4, 5, 7, 9} THEN 4 ELSE 3)
    ELSE 0

SameClass(a, b) == (a - b) % 12 = 0

\* C26: in the SimpleHarmonizer the final hard clamp never changes a pitch: after
\* any sequence of calls the pitch returned for each voice is congruent modulo 12
\* to the lead pitch minus the voice's offset (12 bass, 7 tenor, the third
\* mezzoSoprano, 0 soprano), an octave transposition of a chord tone and never a
\* range boundary reached by clamping.
C26_ClampNeverActs ==
    /\ SimpleReturned =>
           \A v \in Roles :
               SameClass(sCall.result[v].midiNote,
                         sCall.leadNote.midiNote - ChordOffset(v, sCall.leadNote.midiNote))
    \* the two loops alone already land in the range, for every lead pitch
    /\ sCall = NoCall =>
           \A v \in Roles, lead \in SimpleLeadPitches :
               \A note \in {lead - ChordOffset(v, lead)} :
                   \A looped \in {LowerInto(RaiseInto(note, smoothingRanges[v][1]),
                                            smoothingRanges[v][2])} :
                       /\ looped \in RoleRange[v]
                       /\ constrainToRange(note, smoothingRanges[v][1],
                                           smoothingRanges[v][2]) = looped

\* A first call with lead 96: the bass, 84 before the fit, is 60, two octaves
\* down, where one octave and a clamp would have given the boundary 64.
C26_Witness ==
    /\ SimpleReturned
    /\ sCall.path = "first"
    /\ sCall.leadNote.midiNote = 96
    /\ sCall.result["bass"].midiNote = 60
    /\ ~ SameClass(64, 96 - 12)

\* The reference of the smoothing is what the last call returned, if the last call
\* was a generateHarmony, and nothing after a reset.
ReferenceIsLastResult ==
    /\ sCall.op = "generateHarmony" => previousHarmony = sCall.result
    /\ sCall.op = "reset" => ~ HasPrevious(previousHarmony)

NeverFarther ==
    (sCall.op = "generateHarmony" /\ sCall'.op = "generateHarmony") =>
        \A triad \in {FittedTriad(sCall'.leadNote.midiNote)} :
            \A v \in Roles :
                Abs(sCall'.result[v].midiNote - sCall.result[v].midiNote)
                    <= Abs(triad[v] - sCall.result[v].midiNote)

\* C27: the smoothing of the SimpleHarmonizer never increases movement: for every
\* voice and every two consecutive calls, the pitch returned is no farther from
\* the pitch the preceding call returned for that voice than the unsmoothed triad
\* pitch is, the reference being always the result of the immediately preceding
\* call.
C27_SmoothingNeverFarther == [] ReferenceIsLastResult /\ [][NeverFarther]_vars

\* Lead 60 after lead 72: the fitted tenor 53 is 12 below the previous tenor 65,
\* and the tenor returned is 65, the octave above, at distance 0.
C27_Witness ==
    /\ SimpleReturned
    /\ sCall.path = "smoothed"
    /\ sCall.leadNote.midiNote = 60
    /\ FittedTriad(60)["tenor"] = 53
    /\ sCall.result["tenor"].midiNote = 65
    /\ FittedTriad(72)["tenor"] = 65

\* The pitches at which a voice is sounding: those of its started oscillators.
Sounding(v) == {o.midiNote : o \in {o \in voiceSynth.started : o.voice = v}}

\* With a working synthesizer the pitch recorded for a voice is the pitch it
\* sounds at, and a voice with no pitch recorded is silent.
RecordedIsSounding ==
    (audioEnabled /\ Ready(voiceSynth)) =>
        \A v \in Roles :
            Sounding(v) = IF v \in DOMAIN previousNotes THEN {previousNotes[v]} ELSE {}

RestartsExactlyOnChange ==
    /\ aCall'.op = "playHarmony" =>
           /\ audioEnabled
           /\ aCall'.updateNote = Roles \ aCall'.playNote
           /\ \A v \in Roles :
                  /\ v \in aCall'.playNote <=>
                         (\/ v \notin DOMAIN previousNotes
                          \/ previousNotes[v] # sCall'.result[v].midiNote)
                  /\ Ready(voiceSynth) =>
                         (v \in aCall'.playNote <=>
                              sCall'.result[v].midiNote \notin Sounding(v))
                  /\ Ready(voiceSynth) => Sounding(v)' = {sCall'.result[v].midiNote}
    /\ (aCall'.op = "stopAllVoices" /\ audioEnabled) =>
           /\ previousNotes' = NoPreviousNotes
           /\ \A v \in Roles : Sounding(v)' = {}
    /\ (aCall.op = "stopAllVoices" /\ aCall'.op = "playHarmony") =>
           aCall'.playNote = Roles

\* C28: with audio enabled, over any sequence of playHarmony and stopAllVoices
\* events, playHarmony restarts the note of a voice (playNote) exactly when the
\* new pitch differs from the last pitch played for that voice since the last
\* stopAllVoices, and only updates it (updateNote) otherwise; after
\* stopAllVoices the next playHarmony restarts all four voices, whatever the
\* pitches before the stop.
C28_RestartExactlyOnChange == [] RecordedIsSounding /\ [][RestartsExactlyOnChange]_vars

\* The lead went from 71 to 72: the mezzoSoprano, at 68 under both, was updated and
\* the other three voices restarted.
C28_Witness ==
    /\ audioEnabled
    /\ Ready(voiceSynth)
    /\ aCall.op = "playHarmony"
    /\ sCall.leadNote.midiNote = 72
    /\ aCall.updateNote = {"mezzoSoprano"}
    /\ aCall.playNote = {"bass", "tenor", "soprano"}
    /\ Sounding("mezzoSoprano") = {68}
    /\ Sounding("soprano") = {72}

\* The started oscillators of a voice.
StartedIn(syn, v) == {o \in syn.started : o.voice = v}
StartedFor(v) == StartedIn(voiceSynth, v)

AtMostOneOscillator ==
    /\ \A v \in ScannerVoices : Cardinality(StartedFor(v)) <= 1
    \* an oscillator is started only under a reference of its voice
    /\ \A o \in voiceSynth.started :
           /\ Ready(voiceSynth)
           /\ o.voice \in DOMAIN voiceSynth.oscillators
           /\ voiceSynth.oscillators[o.voice] = o.id
    /\ ~ Ready(voiceSynth) => voiceSynth.started = {}

StopsBeforeStarting ==
    /\ aCall'.op = "playNote" =>
           \* nothing starts on a VoiceScanner not initialized, or disposed
           /\ ~ Ready(voiceSynth) => voiceSynth'.started = {}
           \* what sounded for the voice before the call is stopped by it
           /\ \A o \in StartedFor(aCall'.voice) : o \notin voiceSynth'.started
           /\ (Ready(voiceSynth) /\ aCall'.voice \in Roles) =>
                  \E o \in voiceSynth'.started :
                      /\ o.voice = aCall'.voice
                      /\ o.midiNote = aCall'.midiNote
           \* the other voices are left alone
           /\ \A v \in ScannerVoices \ {aCall'.voice} :
                  StartedIn(voiceSynth', v) = StartedFor(v)
    /\ aCall'.op = "dispose" => voiceSynth'.started = {} /\ ~ Ready(voiceSynth')
    /\ aCall'.op = "stopNote" => StartedIn(voiceSynth', aCall'.voice) = {}

\* C29: in a VoiceScanner, after any sequence of initialize, playNote, updateNote,
\* stopNote and dispose, each voice has at most one oscillator started and not
\* stopped: an oscillator playNote started is stopped before another is started
\* for its voice and before dispose completes, and playNote before a successful
\* initialize, or after dispose, starts nothing.
C29_AtMostOneOscillator == [] AtMostOneOscillator /\ [][StopsBeforeStarting]_vars

\* playNote for the tenor at 72 on a VoiceScanner where the tenor was sounding
\* at 60 and the bass at 60: one oscillator each, the tenor's at 72.
C29_Witness ==
    /\ aCall.op = "playNote"
    /\ aCall.voice = "tenor"
    /\ aCall.midiNote = 72
    /\ Cardinality(voiceSynth.started) = 2
    /\ {o.midiNote : o \in StartedFor("tenor")} = {72}
    /\ {o.midiNote : o \in StartedFor("bass")} = {60}
    /\ \E o \in StartedFor("tenor") : voiceSynth.oscillators["tenor"] = o.id

\* A note name as the property states it: a letter A-G, an optional sharp, and a
\* non-negative octave number in decimal digits.
IsNoteNameText(text) ==
    /\ Len(text) >= 2
    /\ text[1] \in {"A", "B", "C", "D", "E", "F", "G"}
    /\ \E first \in {IF text[2] = "#" THEN 3 ELSE 2} :
           /\ first <= Len(text)
           /\ \A k \in first .. Len(text) :
                  text[k] \in {"0", "1", "2", "3", "4", "5", "6", "7", "8", "9"}

\* C30: for every MIDI note m that isValidMidiNote accepts (21 <= m <= 108),
\* noteNameToMidi(midiToNoteName(m)) = m, and noteNameToMidi returns null for
\* every text that is not a letter A-G, an optional '#' and a non-negative octave
\* number.
C30_NoteNameRoundTrip ==
    /\ (tName.op = "midiToNoteName" /\ isValidMidiNote(tName.midi)) =>
           /\ tName.back = tName.midi
           /\ IsNoteNameText(tName.noteName)
    /\ (tName.op = "noteNameToMidi" /\ ~ IsNoteNameText(tName.noteName)) =>
           tName.back = Undefined

\* 61 is named C#4 and C#4 read back as 61.
C30_Witness ==
    /\ tName.op = "midiToNoteName"
    /\ tName.midi = 61
    /\ isValidMidiNote(61)
    /\ tName.noteName = <<"C", "#", "4">>
    /\ tName.back = 61

=============================================================================
